---- MODULE Spec2Model ----
(***************************************************************************)
(* BingoBetFun development tracker (bingobetfun-tracker.js) and the        *)
(* socket.io number-draw server: the component tracker, the activity log,  *)
(* the milestone tracker, the diagnostic reporter and the CLI handlers,    *)
(* as a state machine.                                                     *)
(*                                                                         *)
(* Time is a logical clock `now`: every command reads the clock once,      *)
(* after it has advanced, and every `new Date()` of that command yields    *)
(* that value.  Text typed at a prompt is a sequence of one-character      *)
(* strings where the code parses it, and a plain string where the code     *)
(* only stores it.                                                         *)
(***************************************************************************)
EXTENDS Integers, Sequences, FiniteSets, TLC

VARIABLES
  CONFIG,          \* CONFIG: the configured components, phases, statusLevels, milestones
  DEPENDENCIES,    \* DEPENDENCIES: sequence of [key, deps] in declaration order
  components,      \* ComponentTracker.components (in memory)
  componentsFile,  \* components/status.json
  milestones,      \* MilestoneTracker.milestones (in memory), in insertion order
  milestonesFile,  \* reports/milestones.json
  logDir,          \* bingobetfun-logs: the lines of every development-<day>.log, in append order
  logFile,         \* DevelopmentLogger.logFile: the day this process's logger writes to
  now,             \* the clock
  pc,              \* calculateCriticalPath: position of the walk
  path,            \* calculateCriticalPath: path
  current,         \* calculateCriticalPath: current
  report,          \* the diagnostic report last written, <<>> when none
  lastCall,        \* the tracker method a caller invoked last: its name, what it was
                   \* given and the error it threw ("" when it returned)
  plan,            \* what the plan command printed last, <<>> when none
  peer,            \* ComponentTracker.components of a second invocation of the tool on
                   \* the same directory, <<>> while there is none
  availableNumbers, \* the draw server: the numbers not drawn yet
  drawnNumbers,    \* the draw server: the numbers drawn, in draw order
  emitted,         \* the draw server: what io.emit has broadcast, in order
  received         \* the draw server: for each connected socket, the drawnNumbers
                   \* message it was sent when it connected

vars == <<CONFIG, DEPENDENCIES, components, componentsFile, milestones, milestonesFile,
          logDir, logFile, now, pc, path, current, report, lastCall,
          plan, peer, availableNumbers, drawnNumbers, emitted, received>>

\* the clock advances once per command
Tick == now' = now + 1

\* the tracker script does not talk to the draw server
DrawServerIdle == UNCHANGED <<availableNumbers, drawnNumbers, emitted, received>>

\* the configuration is fixed at startup
ConfigFixed == DrawServerIdle /\ UNCHANGED <<CONFIG, DEPENDENCIES>>

\* before any method was called
NoCall == [op |-> "", name |-> "", index |-> 0, threw |-> ""]

\* the CLI's commands screen their arguments before they call a tracker: what the
\* step records is that no method was handed an unscreened argument
CallsScreened == UNCHANGED lastCall

\* what only the plan command and a second invocation write
PlanAndPeerKept == UNCHANGED <<plan, peer>>

CriticalPathIdle == UNCHANGED <<pc, path, current>>

MilestonesUntouched == UNCHANGED <<milestones, milestonesFile>>

-----------------------------------------------------------------------------
(* Bounds of the model *)

\* commands of one CLI session (Spec)
MaxCmds == 2
\* commands of one milestone session (SpecMilestone)
MaxMilestoneCmds == 2
\* log lines a logging session appends beyond the report's limit (SpecLog)
MaxExtraLogs == 2
\* steps of the backward walk that are followed beyond one visit of every component
MaxExtraSteps == 2
\* method calls of a direct caller (SpecTracker)
MaxCalls == 2

\* the draw server draws from 1..LastNumber (75 in the source)
LastNumber == 3

\* the draw events clients send after the last number is drawn
MaxExtraDraws == 2

\* let availableNumbers = Array.from({ length: 75 }, (_, i) => i + 1); let drawnNumbers = []
DrawServerInit ==
  /\ availableNumbers = [i \in 1..LastNumber |-> i]
  /\ drawnNumbers = <<>>
  /\ emitted = <<>>
  /\ received = [socket \in {} |-> <<>>]

-----------------------------------------------------------------------------
(* Configuration *)

DefaultComponents == <<"BingoFlash", "BingoBackend", "BingoCore", "BingoBlitz", "Appwrite", "SUPERLogs">>

DefaultCONFIG ==
  [ components   |-> DefaultComponents,
    phases       |-> <<"Planning", "Development", "Testing", "Deployment", "Maintenance">>,
    statusLevels |-> <<"Not Started", "In Progress", "Blocked", "Review", "Completed">>,
    milestones   |-> <<"Overlay Integration", "Backend API", "Admin Dashboard",
                       "Appwrite Migration", "Mobile WebView", "Smart TV Support",
                       "ML Integration">> ]

DefaultDEPENDENCIES ==
  << [key |-> "BingoFlash",   deps |-> <<"BingoBackend">>],
     [key |-> "BingoBackend", deps |-> <<"Appwrite">>],
     [key |-> "BingoCore",    deps |-> <<"Appwrite">>],
     [key |-> "BingoBlitz",   deps |-> <<"BingoFlash", "BingoBackend">>],
     [key |-> "Appwrite",     deps |-> <<>>],
     [key |-> "SUPERLogs",    deps |-> <<"Appwrite">>] >>

-----------------------------------------------------------------------------
(* Helpers for JavaScript values *)

Range(s) == {s[i] : i \in 1..Len(s)}

Includes(s, x) == \E i \in 1..Len(s) : s[i] = x

\* Array.prototype.findIndex on a predicate given as the set of matching positions
\* (1-based here); 0 stands for JavaScript's -1.
FirstIndex(matches) == IF matches = {} THEN 0 ELSE CHOOSE i \in matches : \A j \in matches : i <= j

Min2(a, b) == IF a < b THEN a ELSE b

Max2(a, b) == IF a > b THEN a ELSE b

DigitChars == <<"0", "1", "2", "3", "4", "5", "6", "7", "8", "9">>

IsDigit(ch) == \E d \in 1..10 : DigitChars[d] = ch

DigitValue(ch) == (CHOOSE d \in 1..10 : DigitChars[d] = ch) - 1

\* the numeric value of the longest digit prefix of s from position i on, and its length
RECURSIVE DigitPrefix(_, _, _, _)
DigitPrefix(s, i, acc, count) ==
  IF i <= Len(s) /\ IsDigit(s[i])
  THEN DigitPrefix(s, i + 1, acc * 10 + DigitValue(s[i]), count + 1)
  ELSE [value |-> acc, count |-> count]

RECURSIVE SkipSpaces(_, _)
SkipSpaces(s, i) == IF i <= Len(s) /\ s[i] = " " THEN SkipSpaces(s, i + 1) ELSE i

\* parseInt(str, 10): leading blanks, an optional sign, the longest digit prefix;
\* NaN when there is no digit.
parseInt(s) ==
  LET i    == SkipSpaces(s, 1)
      neg  == i <= Len(s) /\ s[i] = "-"
      j    == IF i <= Len(s) /\ s[i] \in {"-", "+"} THEN i + 1 ELSE i
      d    == DigitPrefix(s, j, 0, 0)
  IN  IF d.count = 0 THEN [nan |-> TRUE, value |-> 0]
      ELSE [nan |-> FALSE, value |-> IF neg THEN 0 - d.value ELSE d.value]

\* x || 0 on a number: NaN and 0 are falsy
OrZero(x) == IF x.nan \/ x.value = 0 THEN 0 ELSE x.value

\* answer.toLowerCase() === 'y'
IsYes(answer) == answer \in {"y", "Y"}

\* { ...old, ...updates }: object spread, the later object's properties win
Spread(old, updates) ==
  [f \in (DOMAIN old) \cup (DOMAIN updates) |-> IF f \in DOMAIN updates THEN updates[f] ELSE old[f]]

\* the outcome of a tracker method: the error it threw ("" when it returned) and the
\* value of the tracker's collection afterwards
Returned(value) == [threw |-> "", value |-> value]

Threw(error, value) == [threw |-> error, value |-> value]

-----------------------------------------------------------------------------
(* ComponentTracker *)

\* loadComponents whose forEach stops after the first configured name
DefaultComponentRecords_FirstOnly(names, t) ==
  [name \in {names[i] : i \in 1..Min2(1, Len(names))} |->
     [ name                 |-> name,
       status               |-> "Not Started",
       phase                |-> "Planning",
       lastUpdated          |-> t,
       completionPercentage |-> 0,
       issues               |-> <<>>,
       notes                |-> <<>> ]]

\* the records loadComponents creates when there is no status.json
DefaultComponentRecords(names, t) ==
  [name \in Range(names) |->
     [ name                 |-> name,
       status               |-> "Not Started",
       phase                |-> "Planning",
       lastUpdated          |-> t,
       completionPercentage |-> 0,
       issues               |-> <<>>,
       notes                |-> <<>> ]]

\* JSON.stringify / JSON.parse of the component document: every value in it is a
\* string, a number, a boolean, an array or a plain object, which JSON keeps as it is
StringifyComponents(cs) == cs

ParseComponents(doc) == doc

\* loadComponents: the parsed document when the file exists, the defaults otherwise
loadComponents(file, names, t) ==
  IF file # <<>> THEN ParseComponents(file[1]) ELSE DefaultComponentRecords(names, t)

\* saveComponents: the file's content after the write
saveComponents(cs) == <<StringifyComponents(cs)>>

updateComponent_NoStamp(cs, name, updates, t) ==
  IF name \notin DOMAIN cs
  THEN Threw("Component not found", cs)
  ELSE Returned([cs EXCEPT ![name] = Spread(@, updates)])

\* updateComponent that stamps lastUpdated on every record of the document
updateComponent_StampsAll(cs, name, updates, t) ==
  IF name \notin DOMAIN cs
  THEN Threw("Component not found", cs)
  ELSE Returned([n \in DOMAIN cs |->
                   IF n = name THEN Spread(Spread(cs[n], updates), [lastUpdated |-> t])
                   ELSE Spread(cs[n], [lastUpdated |-> t])])

updateComponent(cs, name, updates, t) ==
  IF name \notin DOMAIN cs
  THEN Threw("Component not found", cs)
  ELSE Returned([cs EXCEPT ![name] = Spread(Spread(@, updates), [lastUpdated |-> t])])

\* addNote that starts a record for a name it does not know
addNote_CreatesRecord(cs, name, note, t) ==
  IF name \notin DOMAIN cs
  THEN Returned([n \in DOMAIN cs \cup {name} |->
                   IF n = name
                   THEN [DefaultComponentRecords(<<name>>, t)[name]
                           EXCEPT !.notes = <<[timestamp |-> t, content |-> note]>>]
                   ELSE cs[n]])
  ELSE Returned([cs EXCEPT ![name].notes = Append(@, [timestamp |-> t, content |-> note])])

addNote(cs, name, note, t) ==
  IF name \notin DOMAIN cs
  THEN Threw("Component not found", cs)
  ELSE Returned([cs EXCEPT ![name].notes = Append(@, [timestamp |-> t, content |-> note])])

\* addIssue that puts the new issue in front of the others
addIssue_Prepend(cs, name, issue, t) ==
  IF name \notin DOMAIN cs
  THEN Threw("Component not found", cs)
  ELSE Returned([cs EXCEPT ![name].issues =
                   <<[timestamp |-> t, content |-> issue, resolved |-> FALSE,
                      resolvedAt |-> <<>>]>> \o @])

addIssue(cs, name, issue, t) ==
  IF name \notin DOMAIN cs
  THEN Threw("Component not found", cs)
  ELSE Returned([cs EXCEPT ![name].issues =
                   Append(@, [timestamp |-> t, content |-> issue, resolved |-> FALSE,
                              resolvedAt |-> <<>>])])

\* issueIndex is 1-based here (JavaScript's index + 1); issues[issueIndex] is
\* undefined, hence falsy, exactly when the index is outside the array
\* resolveIssue that takes an index outside the array for the nearest one inside
resolveIssue_Nearest(cs, name, issueIndex, t) ==
  IF name \notin DOMAIN cs
  THEN Threw("Component not found", cs)
  ELSE IF cs[name].issues = <<>>
  THEN Threw("Issue index not found", cs)
  ELSE Returned([cs EXCEPT ![name].issues[Max2(1, Min2(issueIndex, Len(cs[name].issues)))] =
                   [@ EXCEPT !.resolved = TRUE, !.resolvedAt = <<t>>]])

\* resolveIssue that flips the flag: issue.resolved = !issue.resolved
resolveIssue_Toggle(cs, name, issueIndex, t) ==
  IF name \notin DOMAIN cs
  THEN Threw("Component not found", cs)
  ELSE IF issueIndex \notin 1..Len(cs[name].issues)
  THEN Threw("Issue index not found", cs)
  ELSE Returned([cs EXCEPT ![name].issues[issueIndex] =
                   [@ EXCEPT !.resolved = ~@, !.resolvedAt = <<t>>]])

resolveIssue(cs, name, issueIndex, t) ==
  IF name \notin DOMAIN cs
  THEN Threw("Component not found", cs)
  ELSE IF issueIndex \notin 1..Len(cs[name].issues)
  THEN Threw("Issue index not found", cs)
  ELSE Returned([cs EXCEPT ![name].issues[issueIndex] =
                   [@ EXCEPT !.resolved = TRUE, !.resolvedAt = <<t>>]])

\* DEPENDENCIES[name] || []
getComponentDependencies(name) ==
  LET at == {i \in 1..Len(DEPENDENCIES) : DEPENDENCIES[i].key = name}
  IN  IF at = {} THEN <<>> ELSE DEPENDENCIES[CHOOSE i \in at : TRUE].deps

\* find in place of filter: only the first entry that lists name
getComponentDependents_FirstOnly(name) ==
  LET keep(e) == Includes(e.deps, name)
      kept    == SelectSeq(DEPENDENCIES, keep)
  IN  [i \in 1..Min2(1, Len(kept)) |-> kept[i].key]

\* Object.entries(DEPENDENCIES).filter(([_, deps]) => deps.includes(name)).map(...)
getComponentDependents(name) ==
  LET keep(e) == Includes(e.deps, name)
      kept    == SelectSeq(DEPENDENCIES, keep)
  IN  [i \in 1..Len(kept) |-> kept[i].key]

\* a dependency without a record passed over as if it were Completed
StatusOrUnknown_Satisfied(cs, dep) ==
  IF dep \in DOMAIN cs /\ cs[dep].status # "" THEN cs[dep].status ELSE "Completed"

\* this.components[dep]?.status || 'Unknown'
StatusOrUnknown(cs, dep) ==
  IF dep \in DOMAIN cs /\ cs[dep].status # "" THEN cs[dep].status ELSE "Unknown"

\* the forEach left at the first blocker it finds
RECURSIVE collectBlockers_FirstOnly(_, _, _)
collectBlockers_FirstOnly(cs, deps, satisfied) ==
  IF deps = <<>> THEN <<>>
  ELSE LET status == StatusOrUnknown(cs, Head(deps))
       IN  IF status \notin satisfied
           THEN <<[name |-> Head(deps), status |-> status]>>
           ELSE collectBlockers_FirstOnly(cs, Tail(deps), satisfied)

\* the forEach of checkDependencyStatus: one blocker per dependency whose status is
\* not in `satisfied`, in the order of deps
RECURSIVE collectBlockers(_, _, _)
collectBlockers(cs, deps, satisfied) ==
  IF deps = <<>> THEN <<>>
  ELSE LET status == StatusOrUnknown(cs, Head(deps))
           rest   == collectBlockers(cs, Tail(deps), satisfied)
       IN  IF status \notin satisfied
           THEN <<[name |-> Head(deps), status |-> status]>> \o rest
           ELSE rest

checkDependencyStatus_CompletedOnly(cs, name) ==
  LET blockers == collectBlockers(cs, getComponentDependencies(name), {"Completed"})
  IN  [ready |-> Len(blockers) = 0, blockers |-> blockers]

checkDependencyStatus(cs, name) ==
  LET blockers == collectBlockers(cs, getComponentDependencies(name),
                                  {"Completed", "Review"})
  IN  [ready |-> Len(blockers) = 0, blockers |-> blockers]

-----------------------------------------------------------------------------
(* DevelopmentLogger *)

NoFiles == [day \in {} |-> <<>>]

\* fs.writeFileSync in place of fs.appendFileSync: the line replaces the file
appendLine_Truncating(dir, file, entry) ==
  [day \in DOMAIN dir \cup {file} |-> IF day = file THEN <<entry>> ELSE dir[day]]

\* fs.appendFileSync(this.logFile, ...): one more line at the end of this logger's file
appendLine(dir, file, entry) ==
  IF file \in DOMAIN dir
  THEN [dir EXCEPT ![file] = Append(@, entry)]
  ELSE [day \in (DOMAIN dir) \cup {file} |-> IF day = file THEN <<entry>> ELSE dir[day]]

\* DevelopmentLogger.log: the directory after the append
logEntry(dir, file, component, action, details, t) ==
  appendLine(dir, file, [timestamp |-> t, component |-> component, action |-> action,
                         details |-> details])

\* the first k elements of s
Take(s, k) == SubSeq(s, 1, Min2(k, Len(s)))

\* the files of the directory from the newest day to the oldest, the lines of each in
\* the order they were appended
RECURSIVE linesNewestFileFirst(_, _)
linesNewestFileFirst(dir, days) ==
  IF days = {} THEN <<>>
  ELSE LET newest == CHOOSE d \in days : \A e \in days : e <= d
       IN  dir[newest] \o linesNewestFileFirst(dir, days \ {newest})

\* getRecentLogs(component, limit): reads the files newest first, each from its first
\* line on, and stops once `limit` matching lines are collected; component "" is null
getRecentLogs(component, limit) ==
  LET matches(entry) == component = "" \/ entry.component = component
  IN  Take(SelectSeq(linesNewestFileFirst(logDir, DOMAIN logDir), matches), limit)

\* every line ever appended, oldest first (a process writes to the file of the day it
\* started on, and processes start in day order)
RECURSIVE linesOldestFirst(_, _)
linesOldestFirst(dir, days) ==
  IF days = {} THEN <<>>
  ELSE LET oldest == CHOOSE d \in days : \A e \in days : d <= e
       IN  dir[oldest] \o linesOldestFirst(dir, days \ {oldest})

activityLogOf(dir) == linesOldestFirst(dir, DOMAIN dir)

activityLog == activityLogOf(logDir)

-----------------------------------------------------------------------------
(* MilestoneTracker *)

\* A date value: a Date object in memory, or the ISO string JSON.stringify and
\* toISOString make of it; `time` is the instant on the model's clock.
DateObject(time) == [type |-> "Date", time |-> time]

IsoString(time) == [type |-> "string", time |-> time]

\* the position of the milestone called name, 0 when there is none
milestoneIndex(ms, name) == FirstIndex({i \in 1..Len(ms) : ms[i].name = name})

\* this.milestones[name]
hasMilestone(ms, name) == milestoneIndex(ms, name) # 0

getMilestone(ms, name) == ms[milestoneIndex(ms, name)]

\* the component associations loadMilestones adds to the default milestones
DefaultAssociations(name) ==
  CASE name = "Overlay Integration" -> <<"BingoFlash">>
    [] name = "Backend API"         -> <<"BingoBackend">>
    [] name = "Admin Dashboard"     -> <<"BingoCore">>
    [] name = "Appwrite Migration"  -> <<"Appwrite", "BingoBackend", "BingoCore">>
    [] name = "Mobile WebView"      -> <<"BingoBlitz">>
    [] name = "Smart TV Support"    -> <<"BingoFlash">>
    [] name = "ML Integration"      -> <<"BingoCore", "BingoFlash", "BingoBackend">>
    [] OTHER                        -> <<>>

NewMilestone(name, comps, targetDate, t) ==
  [ name        |-> name,
    status      |-> "Not Started",
    createdAt   |-> t,
    targetDate  |-> targetDate,
    completedAt |-> <<>>,
    components  |-> comps,
    notes       |-> <<>> ]

\* JSON.stringify of a milestone: a Date object is written as its ISO string
StringifyMilestone(m) ==
  [m EXCEPT !.targetDate = [i \in 1..Len(@) |-> IsoString(@[i].time)]]

StringifyMilestones(ms) == [i \in 1..Len(ms) |-> StringifyMilestone(ms[i])]

\* JSON.parse gives back what the text holds: strings stay strings
ParseMilestones(doc) == doc

saveMilestones(ms) == <<StringifyMilestones(ms)>>

\* loadMilestones: the parsed document when the file exists, the defaults with their
\* component associations otherwise
loadMilestones(file, names, t) ==
  IF file # <<>> THEN ParseMilestones(file[1])
  ELSE [i \in 1..Len(names) |-> NewMilestone(names[i], DefaultAssociations(names[i]), <<>>, t)]

updateMilestone(ms, name, updates, t) ==
  IF ~hasMilestone(ms, name)
  THEN Threw("Milestone not found", ms)
  ELSE Returned([ms EXCEPT ![milestoneIndex(ms, name)] =
                   Spread(Spread(@, updates), [lastUpdated |-> t])])

\* addMilestone that writes over a milestone of the same name
addMilestone_Overwrite(ms, name, comps, targetDate, t) ==
  IF hasMilestone(ms, name)
  THEN Returned([ms EXCEPT ![milestoneIndex(ms, name)] = NewMilestone(name, comps, targetDate, t)])
  ELSE Returned(Append(ms, NewMilestone(name, comps, targetDate, t)))

addMilestone(ms, name, comps, targetDate, t) ==
  IF hasMilestone(ms, name)
  THEN Threw("Milestone already exists", ms)
  ELSE Returned(Append(ms, NewMilestone(name, comps, targetDate, t)))

\* completeMilestone that leaves a milestone without members as it is
completeMilestone_NeedsMembers(ms, name, t) ==
  IF ~hasMilestone(ms, name)
  THEN Threw("Milestone not found", ms)
  ELSE IF getMilestone(ms, name).components = <<>>
  THEN Returned(ms)
  ELSE Returned([ms EXCEPT ![milestoneIndex(ms, name)] =
                   [@ EXCEPT !.status = "Completed", !.completedAt = <<t>>]])

completeMilestone(ms, name, t) ==
  IF ~hasMilestone(ms, name)
  THEN Threw("Milestone not found", ms)
  ELSE Returned([ms EXCEPT ![milestoneIndex(ms, name)] =
                   [@ EXCEPT !.status = "Completed", !.completedAt = <<t>>]])

\* the forEach of calculateMilestoneProgress: a member without a record adds 0
RECURSIVE totalProgress(_, _)
totalProgress(cs, members) ==
  IF members = <<>> THEN 0
  ELSE (IF Head(members) \in DOMAIN cs THEN cs[Head(members)].completionPercentage ELSE 0)
       + totalProgress(cs, Tail(members))

\* Math.floor in place of Math.round
RoundedMean_Truncated(total, count) == total \div count

\* Math.round(total / count) for total >= 0 and count > 0: halves round up
RoundedMean(total, count) == (2 * total + count) \div (2 * count)

calculateMilestoneProgress(ms, name, cs) ==
  LET members == getMilestone(ms, name).components
  IN  IF Len(members) = 0 THEN 0 ELSE RoundedMean(totalProgress(cs, members), Len(members))

-----------------------------------------------------------------------------
(* DiagnosticReporter *)

\* generateDiagnosticReport asks for getRecentLogs(null, 10)
RecentLimit == 10

\* findBlockers: every Blocked component, in CONFIG.components order, with the
\* contents of its unresolved issues
\* findBlockers without the filter on issue.resolved
RECURSIVE findBlockersIn_AllIssues(_, _)
findBlockersIn_AllIssues(cs, names) ==
  IF names = <<>> THEN <<>>
  ELSE LET component == cs[Head(names)]
           rest      == findBlockersIn_AllIssues(cs, Tail(names))
       IN  IF component.status = "Blocked"
           THEN <<[component |-> Head(names),
                   issues    |-> [i \in 1..Len(component.issues) |->
                                    component.issues[i].content]]>> \o rest
           ELSE rest

RECURSIVE findBlockersIn(_, _)
findBlockersIn(cs, names) ==
  IF names = <<>> THEN <<>>
  ELSE LET component == cs[Head(names)]
           rest      == findBlockersIn(cs, Tail(names))
       IN  IF component.status = "Blocked"
           THEN LET open == SelectSeq(component.issues, LAMBDA issue : ~issue.resolved)
                IN  <<[component |-> Head(names),
                       issues    |-> [i \in 1..Len(open) |-> open[i].content]]>> \o rest
           ELSE rest

findBlockers == findBlockersIn(components, CONFIG.components)

\* sum over Object.values(components) of completionPercentage
RECURSIVE sumProgress(_, _)
sumProgress(cs, names) ==
  IF names = {} THEN 0
  ELSE LET n == CHOOSE x \in names : TRUE
       IN  cs[n].completionPercentage + sumProgress(cs, names \ {n})

\* Math.round(totalProgress / Object.keys(components).length): 0 / 0 is NaN
overallProgressOf(cs) ==
  LET count == Cardinality(DOMAIN cs)
  IN  IF count = 0 THEN [nan |-> TRUE, value |-> 0]
      ELSE [nan |-> FALSE, value |-> RoundedMean(sumProgress(cs, DOMAIN cs), count)]

generateSummary ==
  LET overallProgress == overallProgressOf(components)
      statuses == Range(CONFIG.statusLevels) \cup {components[n].status : n \in DOMAIN components}
  IN  [ componentCount     |-> Cardinality(DOMAIN components),
        statusBreakdown    |-> [st \in statuses |->
                                  Cardinality({n \in DOMAIN components : components[n].status = st})],
        overallProgress    |-> overallProgress,
        completedMilestones |-> Cardinality({i \in 1..Len(milestones) :
                                               milestones[i].status = "Completed"}),
        totalMilestones    |-> Len(milestones),
        blockers           |-> findBlockers,
        readyForProduction |-> ~overallProgress.nan /\ overallProgress.value = 100 ]

\* analyzeDependencies: one record per configured component
analyzeDependencies ==
  [name \in Range(CONFIG.components) |->
     LET depStatus == checkDependencyStatus(components, name)
     IN  [ status         |-> components[name].status,
           progress       |-> components[name].completionPercentage,
           dependencies   |-> getComponentDependencies(name),
           dependents     |-> getComponentDependents(name),
           readyToProceed |-> depStatus.ready,
           blockers       |-> depStatus.blockers ]]

\* aggregateIssues: the issues of every configured component, in CONFIG.components
\* order, split into open and resolved
RECURSIVE issuesOf(_, _, _)
issuesOf(cs, names, resolved) ==
  IF names = <<>> THEN <<>>
  ELSE LET kept == SelectSeq(cs[Head(names)].issues, LAMBDA issue : issue.resolved = resolved)
       IN  [i \in 1..Len(kept) |->
              [ component  |-> Head(names),
                timestamp  |-> kept[i].timestamp,
                content    |-> kept[i].content,
                resolvedAt |-> kept[i].resolvedAt ]]
           \o issuesOf(cs, Tail(names), resolved)

aggregateIssues ==
  [ open     |-> issuesOf(components, CONFIG.components, FALSE),
    resolved |-> issuesOf(components, CONFIG.components, TRUE) ]

generateDiagnosticReport(t) ==
  [ timestamp       |-> t,
    summary         |-> generateSummary,
    componentStatus |-> components,
    dependencies    |-> analyzeDependencies,
    issues          |-> aggregateIssues,
    milestones      |-> StringifyMilestones(milestones),
    recentActivity  |-> getRecentLogs("", RecentLimit) ]

-----------------------------------------------------------------------------
(* CLI.calculateCriticalPath, one loop iteration per step *)

\* what leafComponents.reduce gives on an empty array: its initial value leafComponents[0]
undefined == "undefined"

\* names.reduce((critical, current) =>
\*   current.completionPercentage < critical.completionPercentage ? current : critical, names[0])
RECURSIVE reduceLowest_LastWins(_, _, _)
reduceLowest_LastWins(cs, names, critical) ==
  IF names = <<>> THEN critical
  ELSE reduceLowest_LastWins(cs, Tail(names),
         IF cs[Head(names)].completionPercentage <= cs[critical].completionPercentage
         THEN Head(names) ELSE critical)

RECURSIVE reduceLowest(_, _, _)
reduceLowest(cs, names, critical) ==
  IF names = <<>> THEN critical
  ELSE reduceLowest(cs, Tail(names),
         IF cs[Head(names)].completionPercentage < cs[critical].completionPercentage
         THEN Head(names) ELSE critical)

\* getComponent(name).completionPercentage throws a TypeError for a name without a record
allTracked(cs, names) == \A i \in 1..Len(names) : names[i] \in DOMAIN cs

leafComponents ==
  SelectSeq(CONFIG.components, LAMBDA name : Len(getComponentDependents(name)) = 0)

\* the lines before the loop: the leaf with the lowest progress starts the path
StartCriticalPath ==
  /\ pc = "idle"
  /\ IF leafComponents = <<>>
     THEN pc' = "walk" /\ path' = <<undefined>> /\ current' = undefined
     ELSE IF ~allTracked(components, leafComponents)
     THEN pc' = "TypeError" /\ UNCHANGED <<path, current>>
     ELSE LET criticalLeaf == reduceLowest(components, leafComponents, leafComponents[1])
          IN  pc' = "walk" /\ path' = <<criticalLeaf>> /\ current' = criticalLeaf
  /\ ConfigFixed /\ CallsScreened /\ PlanAndPeerKept /\ MilestonesUntouched
  /\ UNCHANGED <<components, componentsFile, logDir, logFile, now, report>>

\* one iteration of while (true): break when current has no dependencies, else put
\* its lowest-progress dependency in front of the path
WalkStep ==
  /\ pc = "walk"
  /\ LET dependencies == getComponentDependencies(current)
     IN  IF Len(dependencies) = 0
         THEN pc' = "done" /\ UNCHANGED <<path, current>>
         ELSE IF ~allTracked(components, dependencies)
         THEN pc' = "TypeError" /\ UNCHANGED <<path, current>>
         ELSE LET criticalDep == reduceLowest(components, dependencies, dependencies[1])
              IN  pc' = "walk" /\ path' = <<criticalDep>> \o path /\ current' = criticalDep
  /\ ConfigFixed /\ CallsScreened /\ PlanAndPeerKept /\ MilestonesUntouched
  /\ UNCHANGED <<components, componentsFile, logDir, logFile, now, report>>

-----------------------------------------------------------------------------
(* What the operator types: the small sets the inputs are drawn from *)

\* the components a session's log commands are given
Targets == {"BingoBackend", "BingoFlash"}

\* answers to a (y/n) prompt
AnswerInputs == {"y", "Y", "n"}

\* what is typed at 'Enter new progress percentage (0-100): '
ProgressInputs ==
  { <<"-", "5">>, <<"0">>, <<"4", "0">>, <<"1", "0", "0">>, <<"2", "5", "0">>,
    <<"a", "b", "c">>, <<>> }

\* what is typed at 'Enter issue number to resolve: '
IssueNumberInputs == { <<"1">>, <<"2">>, <<"0">>, <<"x">> }

NoteInputs == {"note"}

ResolutionInputs == {"fixed"}

IssueInputs == {"bug", "crash"}

\* free text typed at a details prompt; a log line's details are a sequence of texts
DetailsInputs == {<<"details">>}

-----------------------------------------------------------------------------
(* CLI.logDevelopment: one action per menu entry *)

\* what every log command leaves alone
LogCommandFrame ==
  /\ ConfigFixed /\ CallsScreened /\ PlanAndPeerKept /\ MilestonesUntouched /\ CriticalPathIdle
  /\ UNCHANGED <<logFile, report>>

\* the command returned before any mutation
NothingLogged == UNCHANGED <<components, componentsFile, logDir>>

\* the tracker's state and file after a sequence of tracker calls, and the log
Commit(cs, dir) ==
  /\ components' = cs
  /\ componentsFile' = saveComponents(cs)
  /\ logDir' = dir

\* 'Update Status' as a hard gate: an unready In Progress is refused whatever is answered
UpdateStatus_HardGate(component, newStatus, proceed, details) ==
  /\ component \in DOMAIN components
  /\ Tick
  /\ LogCommandFrame
  /\ LET depStatus == checkDependencyStatus(components, component)
     IN  IF newStatus = "In Progress" /\ ~depStatus.ready
         THEN NothingLogged
         ELSE Commit(updateComponent(components, component, [status |-> newStatus], now').value,
                     logEntry(logDir, logFile, component, <<"Status updated to", newStatus>>,
                              details, now'))

\* case 'Update Status'
UpdateStatus(component, newStatus, proceed, details) ==
  /\ component \in DOMAIN components
  /\ Tick
  /\ LogCommandFrame
  /\ LET depStatus == checkDependencyStatus(components, component)
     IN  IF newStatus = "In Progress" /\ ~depStatus.ready /\ ~IsYes(proceed)
         THEN NothingLogged
         ELSE Commit(updateComponent(components, component, [status |-> newStatus], now').value,
                     logEntry(logDir, logFile, component, <<"Status updated to", newStatus>>,
                              details, now'))

\* 'Update Phase' that also starts the component: the status goes to In Progress
UpdatePhase_StartsWork(component, newPhase, details) ==
  /\ component \in DOMAIN components
  /\ Tick
  /\ LogCommandFrame
  /\ Commit(updateComponent(components, component,
                            [phase |-> newPhase, status |-> "In Progress"], now').value,
            logEntry(logDir, logFile, component, <<"Phase updated to", newPhase>>, details, now'))

\* case 'Update Phase'
UpdatePhase(component, newPhase, details) ==
  /\ component \in DOMAIN components
  /\ Tick
  /\ LogCommandFrame
  /\ Commit(updateComponent(components, component, [phase |-> newPhase], now').value,
            logEntry(logDir, logFile, component, <<"Phase updated to", newPhase>>, details, now'))

\* Math.min(100, parseInt(progressStr, 10) || 0): the clamp without its lower bound
clampProgress_NoFloor(progressStr) == Min2(100, OrZero(parseInt(progressStr)))

\* Math.min(100, Math.max(0, parseInt(progressStr, 10) || 0))
clampProgress(progressStr) == Min2(100, Max2(0, OrZero(parseInt(progressStr))))

\* 'Update Progress' that marks the component Completed at 100% without asking
UpdateProgress_AutoComplete(component, progressStr, details, completeStatus) ==
  /\ component \in DOMAIN components
  /\ Tick
  /\ LogCommandFrame
  /\ LET comp     == components[component]
         progress == clampProgress(progressStr)
         cs1      == updateComponent(components, component,
                                     [completionPercentage |-> progress], now').value
         dir1     == logEntry(logDir, logFile, component, <<"Progress updated to", ToString(progress)>>,
                              details, now')
     IN  IF progress = 100 /\ comp.status # "Completed"
         THEN Commit(updateComponent(cs1, component, [status |-> "Completed"], now').value,
                     logEntry(dir1, logFile, component, <<"Status updated to", "Completed">>,
                              <<"Automatically set based on 100% progress">>, now'))
         ELSE Commit(cs1, dir1)

\* case 'Update Progress'
UpdateProgress(component, progressStr, details, completeStatus) ==
  /\ component \in DOMAIN components
  /\ Tick
  /\ LogCommandFrame
  /\ LET comp     == components[component]
         progress == clampProgress(progressStr)
         cs1      == updateComponent(components, component,
                                     [completionPercentage |-> progress], now').value
         dir1     == logEntry(logDir, logFile, component, <<"Progress updated to", ToString(progress)>>,
                              details, now')
     IN  IF progress = 100 /\ comp.status # "Completed" /\ IsYes(completeStatus)
         THEN Commit(updateComponent(cs1, component, [status |-> "Completed"], now').value,
                     logEntry(dir1, logFile, component, <<"Status updated to", "Completed">>,
                              <<"Automatically set based on 100% progress">>, now'))
         ELSE Commit(cs1, dir1)

\* case 'Add Note'
AddNote(component, note) ==
  /\ component \in DOMAIN components
  /\ Tick
  /\ LogCommandFrame
  /\ Commit(addNote(components, component, note, now').value,
            logEntry(logDir, logFile, component, <<"Note added">>, <<note>>, now'))

\* case 'Report Issue'
ReportIssue(component, issue, blockComponent) ==
  /\ component \in DOMAIN components
  /\ Tick
  /\ LogCommandFrame
  /\ LET cs1  == addIssue(components, component, issue, now').value
         dir1 == logEntry(logDir, logFile, component, <<"Issue reported">>, <<issue>>, now')
     IN  IF IsYes(blockComponent)
         THEN Commit(updateComponent(cs1, component, [status |-> "Blocked"], now').value,
                     logEntry(dir1, logFile, component, <<"Status updated to", "Blocked">>,
                              <<"Due to issue", issue>>, now'))
         ELSE Commit(cs1, dir1)

\* comp.issues.filter(issue => !issue.resolved), as the positions of the open issues
openIssues(comp) == SelectSeq([i \in 1..Len(comp.issues) |-> i], LAMBDA i : ~comp.issues[i].resolved)

\* comp.issues.findIndex(i => i.content === content && !i.resolved), 1-based
actualIndexOf(comp, content) ==
  FirstIndex({i \in 1..Len(comp.issues) :
                comp.issues[i].content = content /\ ~comp.issues[i].resolved})

\* 'Resolve Issue' that unblocks the component without asking
ResolveIssue_AutoUnblock(component, issueIdxStr, resolution, unblock) ==
  /\ component \in DOMAIN components
  /\ Tick
  /\ LogCommandFrame
  /\ LET comp     == components[component]
         issues   == openIssues(comp)
         parsed   == parseInt(issueIdxStr)
         \* parseInt(...) - 1 as a 0-based index; NaN - 1 is NaN, which fails both tests
         valid    == ~parsed.nan /\ parsed.value - 1 >= 0 /\ parsed.value - 1 < Len(issues)
     IN  IF Len(issues) = 0 \/ ~valid
         THEN NothingLogged
         ELSE LET selected == comp.issues[issues[parsed.value]]
                  cs1  == resolveIssue(components, component,
                                       actualIndexOf(comp, selected.content), now').value
                  dir1 == logEntry(logDir, logFile, component, <<"Issue resolved">>,
                                   <<selected.content, resolution>>, now')
                  after == cs1[component]
              IN  IF /\ after.status = "Blocked"
                     /\ \A i \in 1..Len(after.issues) : after.issues[i].resolved
                  THEN Commit(updateComponent(cs1, component, [status |-> "In Progress"], now').value,
                              logEntry(dir1, logFile, component,
                                       <<"Status updated to", "In Progress">>,
                                       <<"All blocking issues resolved">>, now'))
                  ELSE Commit(cs1, dir1)

\* case 'Resolve Issue'
ResolveIssue(component, issueIdxStr, resolution, unblock) ==
  /\ component \in DOMAIN components
  /\ Tick
  /\ LogCommandFrame
  /\ LET comp     == components[component]
         issues   == openIssues(comp)
         parsed   == parseInt(issueIdxStr)
         \* parseInt(...) - 1 as a 0-based index; NaN - 1 is NaN, which fails both tests
         valid    == ~parsed.nan /\ parsed.value - 1 >= 0 /\ parsed.value - 1 < Len(issues)
     IN  IF Len(issues) = 0 \/ ~valid
         THEN NothingLogged
         ELSE LET selected == comp.issues[issues[parsed.value]]
                  cs1  == resolveIssue(components, component,
                                       actualIndexOf(comp, selected.content), now').value
                  dir1 == logEntry(logDir, logFile, component, <<"Issue resolved">>,
                                   <<selected.content, resolution>>, now')
                  after == cs1[component]
              IN  IF /\ after.status = "Blocked"
                     /\ \A i \in 1..Len(after.issues) : after.issues[i].resolved
                     /\ IsYes(unblock)
                  THEN Commit(updateComponent(cs1, component, [status |-> "In Progress"], now').value,
                              logEntry(dir1, logFile, component,
                                       <<"Status updated to", "In Progress">>,
                                       <<"All blocking issues resolved">>, now'))
                  ELSE Commit(cs1, dir1)

\* the action menu's 'Cancel', and a component name that is not in the tracker
CancelLog ==
  /\ Tick
  /\ LogCommandFrame
  /\ NothingLogged

-----------------------------------------------------------------------------
(* CLI.manageMilestones: one action per menu entry *)

\* what is typed at 'Enter milestone name: '
MilestoneNameInputs == {"", "Backend API", "Launch"}

\* the milestones an update or a completion is chosen for
MilestoneTargets == {"Backend API", "Appwrite Migration", "Launch"}

MilestoneStatusInputs == {"Not Started", "In Progress", "Delayed", "Completed", "Cancelled"}

\* what is typed at the 'Component #: ' prompts, up to the empty line that ends them
SelectionInputs ==
  { <<>>,
    << <<"2">> >>,
    << <<"5">>, <<"2">>, <<"5">> >>,
    << <<"9">>, <<"x">>, <<"1">> >> }

\* what is typed at a date prompt: nothing, "none", a well-formed date (the instant
\* it denotes on the model's clock) or text that is no date
DateInputs ==
  { [text |-> "", time |-> 0], [text |-> "none", time |-> 0], [text |-> "garbage", time |-> 0],
    [text |-> "date", time |-> 1], [text |-> "date", time |-> 4] }

\* isNaN(new Date(str).getTime())
IsInvalidDate(str) == str.text # "date"

\* the 'Component #: ' loop without its includes test: every valid number adds its
\* component
RECURSIVE selectComponents_NoDedup(_, _, _)
selectComponents_NoDedup(names, selections, selected) ==
  IF selections = <<>> \/ Head(selections) = <<>> THEN selected
  ELSE LET parsed == parseInt(Head(selections))
           valid  == ~parsed.nan /\ parsed.value - 1 >= 0 /\ parsed.value - 1 < Len(names)
       IN  IF valid
           THEN selectComponents_NoDedup(names, Tail(selections), Append(selected, names[parsed.value]))
           ELSE selectComponents_NoDedup(names, Tail(selections), selected)

\* the 'Component #: ' loop: each valid number adds its component unless it is
\* already selected; an empty line ends the loop
RECURSIVE selectComponents(_, _, _)
selectComponents(names, selections, selected) ==
  IF selections = <<>> \/ Head(selections) = <<>> THEN selected
  ELSE LET parsed == parseInt(Head(selections))
           valid  == ~parsed.nan /\ parsed.value - 1 >= 0 /\ parsed.value - 1 < Len(names)
       IN  IF valid /\ ~Includes(selected, names[parsed.value])
           THEN selectComponents(names, Tail(selections), Append(selected, names[parsed.value]))
           ELSE selectComponents(names, Tail(selections), selected)

\* what every milestone command leaves alone: no milestone command writes to the log
MilestoneCommandFrame ==
  /\ ConfigFixed /\ CallsScreened /\ PlanAndPeerKept /\ CriticalPathIdle
  /\ UNCHANGED <<components, componentsFile, logDir, logFile, report>>

NoMilestoneChange == UNCHANGED <<milestones, milestonesFile>>

CommitMilestones(ms) ==
  /\ milestones' = ms
  /\ milestonesFile' = saveMilestones(ms)

\* case 'View Milestones'
ViewMilestones ==
  /\ Tick
  /\ MilestoneCommandFrame
  /\ NoMilestoneChange

\* case 'Create Milestone'
CreateMilestone(name, selections, targetDateStr) ==
  /\ Tick
  /\ MilestoneCommandFrame
  /\ IF name = "" \/ hasMilestone(milestones, name)
     THEN NoMilestoneChange
     ELSE LET selectedComponents == selectComponents(CONFIG.components, selections, <<>>)
              targetDate == IF targetDateStr.text = "" \/ IsInvalidDate(targetDateStr)
                            THEN <<>>
                            ELSE <<DateObject(targetDateStr.time)>>
          IN  CommitMilestones(addMilestone(milestones, name, selectedComponents,
                                            targetDate, now').value)

\* case 'Update Milestone', field 'Target Date'
UpdateTargetDate(milestoneName, newDateStr) ==
  /\ hasMilestone(milestones, milestoneName)
  /\ Tick
  /\ MilestoneCommandFrame
  /\ IF newDateStr.text = "none"
     THEN CommitMilestones(updateMilestone(milestones, milestoneName,
                                           [targetDate |-> <<>>], now').value)
     ELSE IF IsInvalidDate(newDateStr)
     THEN NoMilestoneChange
     ELSE CommitMilestones(updateMilestone(milestones, milestoneName,
                                           [targetDate |-> <<IsoString(newDateStr.time)>>],
                                           now').value)

\* case 'Update Milestone', field 'Components', 'Add Component': the component is
\* chosen among those the milestone does not hold
AddComponent(milestoneName, component) ==
  /\ hasMilestone(milestones, milestoneName)
  /\ Tick
  /\ MilestoneCommandFrame
  /\ LET currentComponents == getMilestone(milestones, milestoneName).components
         availableComponents == SelectSeq(CONFIG.components,
                                          LAMBDA c : ~Includes(currentComponents, c))
     IN  /\ Includes(availableComponents, component)
         /\ CommitMilestones(updateMilestone(milestones, milestoneName,
                               [components |-> Append(currentComponents, component)],
                               now').value)

\* 'Remove Component': the component is chosen among those the milestone holds
RemoveComponent(milestoneName, component) ==
  /\ hasMilestone(milestones, milestoneName)
  /\ Tick
  /\ MilestoneCommandFrame
  /\ LET currentComponents == getMilestone(milestones, milestoneName).components
     IN  /\ Includes(currentComponents, component)
         /\ CommitMilestones(updateMilestone(milestones, milestoneName,
                               [components |-> SelectSeq(currentComponents,
                                                         LAMBDA c : c # component)],
                               now').value)

\* 'Replace All Components'
ReplaceAllComponents(milestoneName, selections) ==
  /\ hasMilestone(milestones, milestoneName)
  /\ Tick
  /\ MilestoneCommandFrame
  /\ CommitMilestones(updateMilestone(milestones, milestoneName,
                        [components |-> selectComponents(CONFIG.components, selections, <<>>)],
                        now').value)

\* case 'Update Milestone', field 'Status'
UpdateMilestoneStatus(milestoneName, newStatus, confirm) ==
  /\ hasMilestone(milestones, milestoneName)
  /\ Tick
  /\ MilestoneCommandFrame
  /\ IF newStatus = "Completed"
     THEN IF calculateMilestoneProgress(milestones, milestoneName, components) < 100
             /\ ~IsYes(confirm)
          THEN NoMilestoneChange
          ELSE CommitMilestones(completeMilestone(milestones, milestoneName, now').value)
     ELSE CommitMilestones(updateMilestone(milestones, milestoneName,
                                           [status |-> newStatus], now').value)

\* case 'Update Milestone', field 'Add Note'
AddMilestoneNote(milestoneName, note) ==
  /\ hasMilestone(milestones, milestoneName)
  /\ Tick
  /\ MilestoneCommandFrame
  /\ IF note = ""
     THEN NoMilestoneChange
     ELSE LET notes == getMilestone(milestones, milestoneName).notes
          IN  CommitMilestones(updateMilestone(milestones, milestoneName,
                                 [notes |-> Append(notes, [timestamp |-> now', content |-> note])],
                                 now').value)

\* case 'Complete Milestone': the milestone is chosen among those not Completed
CompleteMilestone(milestoneName, confirm) ==
  /\ hasMilestone(milestones, milestoneName)
  /\ getMilestone(milestones, milestoneName).status # "Completed"
  /\ Tick
  /\ MilestoneCommandFrame
  /\ IF calculateMilestoneProgress(milestones, milestoneName, components) < 100
        /\ ~IsYes(confirm)
     THEN NoMilestoneChange
     ELSE CommitMilestones(completeMilestone(milestones, milestoneName, now').value)

\* the milestone menus' 'Cancel'
CancelMilestone ==
  /\ Tick
  /\ MilestoneCommandFrame
  /\ NoMilestoneChange

-----------------------------------------------------------------------------
(* The CLI session: new CLI(), then one command after another *)

\* new ComponentTracker(), new DevelopmentLogger(), new MilestoneTracker() in a
\* working directory that holds no state yet, on day 0
Init ==
  /\ CONFIG = DefaultCONFIG
  /\ DEPENDENCIES = DefaultDEPENDENCIES
  /\ now = 0
  /\ components = loadComponents(<<>>, DefaultCONFIG.components, 0)
  /\ componentsFile = saveComponents(components)
  /\ milestones = loadMilestones(<<>>, DefaultCONFIG.milestones, 0)
  /\ milestonesFile = saveMilestones(milestones)
  /\ logDir = NoFiles
  /\ logFile = 0
  /\ pc = "idle"
  /\ path = <<>>
  /\ current = ""
  /\ report = <<>>
  /\ lastCall = NoCall
  /\ plan = <<>>
  /\ peer = <<>>
  /\ DrawServerInit

\* the operator runs another command ('Run another command? (y/n)')
SessionOpen == now < MaxCmds

Next ==
  \/ \E c \in Targets, s \in Range(CONFIG.statusLevels), a \in AnswerInputs, d \in DetailsInputs :
       SessionOpen /\ UpdateStatus(c, s, a, d)
  \/ \E c \in Targets, ph \in Range(CONFIG.phases), d \in DetailsInputs :
       SessionOpen /\ UpdatePhase(c, ph, d)
  \/ \E c \in Targets, p \in ProgressInputs, d \in DetailsInputs, a \in AnswerInputs :
       SessionOpen /\ UpdateProgress(c, p, d, a)
  \/ \E c \in Targets, n \in NoteInputs :
       SessionOpen /\ AddNote(c, n)
  \/ \E c \in Targets, i \in IssueInputs, a \in AnswerInputs :
       SessionOpen /\ ReportIssue(c, i, a)
  \/ \E c \in Targets, k \in IssueNumberInputs, r \in ResolutionInputs, a \in AnswerInputs :
       SessionOpen /\ ResolveIssue(c, k, r, a)
  \/ SessionOpen /\ CancelLog

Spec == Init /\ [][Next]_vars

-----------------------------------------------------------------------------
(* A session of milestone commands, with progress updates between them *)

MilestoneSessionOpen == now < MaxMilestoneCmds

\* the components whose progress the milestone session updates, and the values typed
MilestoneProgressTargets == {"BingoBackend"}

MilestoneProgressInputs == { <<"4", "5">>, <<"1", "0", "0">> }

MilestoneNoteInputs == {"", "note"}

NextMilestone ==
  \/ MilestoneSessionOpen /\ ViewMilestones
  \/ \E n \in MilestoneNameInputs, sel \in SelectionInputs, d \in DateInputs :
       MilestoneSessionOpen /\ CreateMilestone(n, sel, d)
  \/ \E m \in MilestoneTargets, d \in DateInputs :
       MilestoneSessionOpen /\ UpdateTargetDate(m, d)
  \/ \E m \in MilestoneTargets, c \in Range(CONFIG.components) :
       MilestoneSessionOpen /\ AddComponent(m, c)
  \/ \E m \in MilestoneTargets, c \in Range(CONFIG.components) :
       MilestoneSessionOpen /\ RemoveComponent(m, c)
  \/ \E m \in MilestoneTargets, sel \in SelectionInputs :
       MilestoneSessionOpen /\ ReplaceAllComponents(m, sel)
  \/ \E m \in MilestoneTargets, st \in MilestoneStatusInputs, a \in AnswerInputs :
       MilestoneSessionOpen /\ UpdateMilestoneStatus(m, st, a)
  \/ \E m \in MilestoneTargets, n \in MilestoneNoteInputs :
       MilestoneSessionOpen /\ AddMilestoneNote(m, n)
  \/ \E m \in MilestoneTargets, a \in AnswerInputs :
       MilestoneSessionOpen /\ CompleteMilestone(m, a)
  \/ MilestoneSessionOpen /\ CancelMilestone
  \/ \E c \in MilestoneProgressTargets, p \in MilestoneProgressInputs, d \in DetailsInputs :
       MilestoneSessionOpen /\ UpdateProgress(c, p, d, "n")

SpecMilestone == Init /\ [][NextMilestone]_vars

-----------------------------------------------------------------------------
(* The critical path on dependency tables over three components and on the configured one *)

TableNames == <<"A", "B", "C">>

\* the completionPercentage values of the persisted component document
ProgressValues == {20, 50, 80}

\* the dependency lists a table may declare for name: any list of distinct other names
DepLists(names, name) ==
  LET others == Range(names) \ {name}
  IN  {<<>>} \cup {<<x>> : x \in others}
             \cup {<<x, y>> : <<x, y>> \in {pair \in others \X others : pair[1] # pair[2]}}

Tables ==
  { << [key |-> "A", deps |-> a], [key |-> "B", deps |-> b], [key |-> "C", deps |-> c] >> :
      a \in DepLists(TableNames, "A"), b \in DepLists(TableNames, "B"),
      c \in DepLists(TableNames, "C") }

Configurations ==
  { [components |-> TableNames, table |-> t] : t \in Tables }
  \cup { [components |-> DefaultComponents, table |-> DefaultDEPENDENCIES] }

\* a tracker started on a component document of an earlier session
InitCP ==
  /\ \E cfg \in Configurations :
       /\ CONFIG = [DefaultCONFIG EXCEPT !.components = cfg.components]
       /\ DEPENDENCIES = cfg.table
       /\ \E progress \in [Range(cfg.components) -> ProgressValues] :
            components = [n \in Range(cfg.components) |->
                            [DefaultComponentRecords(cfg.components, 0)[n]
                               EXCEPT !.completionPercentage = progress[n]]]
  /\ componentsFile = saveComponents(components)
  /\ now = 0
  /\ milestones = loadMilestones(<<>>, DefaultCONFIG.milestones, 0)
  /\ milestonesFile = saveMilestones(milestones)
  /\ logDir = NoFiles
  /\ logFile = 0
  /\ pc = "idle"
  /\ path = <<>>
  /\ current = ""
  /\ report = <<>>
  /\ lastCall = NoCall
  /\ plan = <<>>
  /\ peer = <<>>
  /\ DrawServerInit

\* the walk is followed until the path is MaxExtraSteps longer than the component list
WalkFollowed == Len(path) < Len(CONFIG.components) + MaxExtraSteps

NextCP ==
  \/ StartCriticalPath
  \/ WalkFollowed /\ WalkStep

SpecCP == InitCP /\ [][NextCP]_vars

-----------------------------------------------------------------------------
(* A session that writes log lines and diagnostic reports *)

\* case 'diagnose': the report is written to reports/diagnostic-<timestamp>.json
\* runDiagnostics with a line about itself appended to the activity log
RunDiagnostics_Logging ==
  /\ Tick
  /\ IF allTracked(components, CONFIG.components)
     THEN report' = <<generateDiagnosticReport(now')>> /\ UNCHANGED pc
     ELSE pc' = "TypeError" /\ UNCHANGED report
  /\ logDir' = logEntry(logDir, logFile, "", <<"Diagnostics run">>, <<>>, now')
  /\ ConfigFixed /\ CallsScreened /\ PlanAndPeerKept /\ MilestonesUntouched
  /\ UNCHANGED <<components, componentsFile, logFile, path, current>>

\* findBlockers, analyzeDependencies and aggregateIssues read component.status and
\* component.issues for every configured component: a TypeError when one has no record
RunDiagnostics ==
  /\ Tick
  /\ IF allTracked(components, CONFIG.components)
     THEN report' = <<generateDiagnosticReport(now')>> /\ UNCHANGED pc
     ELSE pc' = "TypeError" /\ UNCHANGED report
  /\ ConfigFixed /\ CallsScreened /\ PlanAndPeerKept /\ MilestonesUntouched
  /\ UNCHANGED <<components, componentsFile, logDir, logFile, path, current>>

\* the component the logging session writes notes for
LogTargets == {"BingoCore"}

\* the session runs on day 1; the directory may hold the file of day 0
InitLog ==
  /\ CONFIG = DefaultCONFIG
  /\ DEPENDENCIES = DefaultDEPENDENCIES
  /\ now = 0
  /\ components = loadComponents(<<>>, DefaultCONFIG.components, 0)
  /\ componentsFile = saveComponents(components)
  /\ milestones = loadMilestones(<<>>, DefaultCONFIG.milestones, 0)
  /\ milestonesFile = saveMilestones(milestones)
  /\ logDir \in {NoFiles, logEntry(NoFiles, 0, "Appwrite", <<"Note added">>, <<"old">>, 0)}
  /\ logFile = 1
  /\ pc = "idle"
  /\ path = <<>>
  /\ current = ""
  /\ report = <<>>
  /\ lastCall = NoCall
  /\ plan = <<>>
  /\ peer = <<>>
  /\ DrawServerInit

LogSessionOpen == now < RecentLimit + MaxExtraLogs

NextLog ==
  \/ \E c \in LogTargets, n \in NoteInputs : LogSessionOpen /\ AddNote(c, n)
  \/ LogSessionOpen /\ RunDiagnostics

SpecLog == InitLog /\ [][NextLog]_vars

-----------------------------------------------------------------------------
(* A caller that invokes the trackers' methods itself, with any argument *)

\* the components of a status.json written by an earlier session, when the
\* configuration listed three components: BingoBackend is Blocked at 45% with one
\* resolved and one open issue
EarlierDocument ==
  [n \in {"BingoFlash", "BingoBackend", "BingoCore"} |->
     IF n = "BingoBackend"
     THEN [ name                 |-> n,
            status               |-> "Blocked",
            phase                |-> "Development",
            lastUpdated          |-> 0,
            completionPercentage |-> 45,
            issues               |-> << [timestamp |-> 0, content |-> "bug", resolved |-> TRUE,
                                         resolvedAt |-> <<0>>],
                                        [timestamp |-> 0, content |-> "crash", resolved |-> FALSE,
                                         resolvedAt |-> <<>>] >>,
            notes                |-> <<[timestamp |-> 0, content |-> "started"]>> ]
     ELSE DefaultComponentRecords(<<n>>, 0)[n]]

\* new ComponentTracker() and new MilestoneTracker() in a directory that holds no
\* state yet, or the status.json of the earlier session
InitTracker ==
  /\ CONFIG = DefaultCONFIG
  /\ DEPENDENCIES = DefaultDEPENDENCIES
  /\ now = 0
  /\ \E file \in {<<>>, <<StringifyComponents(EarlierDocument)>>} :
       components = loadComponents(file, DefaultCONFIG.components, 0)
  /\ componentsFile = saveComponents(components)
  /\ milestones = loadMilestones(<<>>, DefaultCONFIG.milestones, 0)
  /\ milestonesFile = saveMilestones(milestones)
  /\ logDir = NoFiles
  /\ logFile = 0
  /\ pc = "idle"
  /\ path = <<>>
  /\ current = ""
  /\ report = <<>>
  /\ lastCall = NoCall
  /\ plan = <<>>
  /\ peer = <<>>
  /\ DrawServerInit

\* the names the methods are called with: Ghost is in no document
CallNames == {"BingoBackend", "BingoCore", "Ghost"}

\* the issueIndex arguments, as JavaScript array indexes
IndexInputs == {0 - 1, 0, 1, 2}

\* the updates arguments
UpdateInputs == { [status |-> "Blocked"], [completionPercentage |-> 45],
                  [completionPercentage |-> 100] }

\* the milestone names the methods are called with
CallMilestoneNames == {"Backend API", "Launch"}

\* the components arguments of addMilestone
CallMemberInputs == { <<>>, <<"BingoBackend", "BingoCore">>, <<"BingoBackend", "Ghost">> }

\* a ComponentTracker method ran: a method that throws does so before it changes a
\* record and before saveComponents
ComponentCall(op, name, index, outcome) ==
  /\ components' = outcome.value
  /\ componentsFile' = IF outcome.threw = "" THEN saveComponents(outcome.value)
                       ELSE componentsFile
  /\ lastCall' = [op |-> op, name |-> name, index |-> index, threw |-> outcome.threw]
  /\ PlanAndPeerKept
  /\ ConfigFixed /\ MilestonesUntouched /\ CriticalPathIdle
  /\ UNCHANGED <<logDir, logFile, report>>

CallUpdateComponent(name, updates) ==
  /\ Tick
  /\ ComponentCall("updateComponent", name, 0, updateComponent(components, name, updates, now'))

CallAddNote(name, note) ==
  /\ Tick
  /\ ComponentCall("addNote", name, 0, addNote(components, name, note, now'))

CallAddIssue(name, issue) ==
  /\ Tick
  /\ ComponentCall("addIssue", name, 0, addIssue(components, name, issue, now'))

CallResolveIssue(name, issueIndex) ==
  /\ Tick
  /\ ComponentCall("resolveIssue", name, issueIndex,
                   resolveIssue(components, name, issueIndex + 1, now'))

\* a MilestoneTracker method ran
MilestoneCall(op, name, outcome) ==
  /\ milestones' = outcome.value
  /\ milestonesFile' = IF outcome.threw = "" THEN saveMilestones(outcome.value)
                       ELSE milestonesFile
  /\ lastCall' = [op |-> op, name |-> name, index |-> 0, threw |-> outcome.threw]
  /\ PlanAndPeerKept
  /\ ConfigFixed /\ CriticalPathIdle
  /\ UNCHANGED <<components, componentsFile, logDir, logFile, report>>

CallAddMilestone(name, members) ==
  /\ Tick
  /\ MilestoneCall("addMilestone", name, addMilestone(milestones, name, members, <<>>, now'))

CallCompleteMilestone(name) ==
  /\ Tick
  /\ MilestoneCall("completeMilestone", name, completeMilestone(milestones, name, now'))

\* CLI.logDevelopment(componentName) for a name the tracker has no record of:
\* 'Component ... not found.' and return
LogUnknownComponent(componentName) ==
  /\ componentName \notin DOMAIN components
  /\ Tick
  /\ LogCommandFrame
  /\ NothingLogged

\* the component the log commands between the calls are given
IssueTarget == "BingoBackend"

CallsOpen == now < MaxCalls

NextTracker ==
  \/ \E n \in CallNames, u \in UpdateInputs : CallsOpen /\ CallUpdateComponent(n, u)
  \/ \E n \in CallNames, t \in NoteInputs : CallsOpen /\ CallAddNote(n, t)
  \/ \E n \in CallNames, i \in IssueInputs : CallsOpen /\ CallAddIssue(n, i)
  \/ \E n \in CallNames, k \in IndexInputs : CallsOpen /\ CallResolveIssue(n, k)
  \/ \E m \in CallMilestoneNames, c \in CallMemberInputs : CallsOpen /\ CallAddMilestone(m, c)
  \/ \E m \in CallMilestoneNames : CallsOpen /\ CallCompleteMilestone(m)
  \/ \E n \in CallNames : CallsOpen /\ LogUnknownComponent(n)
  \/ \E i \in IssueInputs, b \in AnswerInputs :
       CallsOpen /\ ReportIssue(IssueTarget, i, b)
  \/ \E k \in IssueNumberInputs, r \in ResolutionInputs, b \in AnswerInputs :
       CallsOpen /\ ResolveIssue(IssueTarget, k, r, b)
  \/ \E t \in NoteInputs : CallsOpen /\ AddNote(IssueTarget, t)
  \/ \E m \in CallMilestoneNames, b \in AnswerInputs : CallsOpen /\ CompleteMilestone(m, b)
  \/ \E m \in CallMilestoneNames :
       CallsOpen /\ CreateMilestone(m, << <<"2">> >>, [text |-> "", time |-> 0])

SpecTracker == InitTracker /\ [][NextTracker]_vars

-----------------------------------------------------------------------------
(* CLI.showStatus, showDependencies and showPlan: the commands that only print *)

\* Array.prototype.sort with a comparator: a stable sort, the element x goes before
\* the first element it compares below
RECURSIVE insertSorted(_, _, _)
insertSorted(x, sorted, compare) ==
  IF sorted = <<>> THEN <<x>>
  ELSE IF compare[x, Head(sorted)] < 0 THEN <<x>> \o sorted
  ELSE <<Head(sorted)>> \o insertSorted(x, Tail(sorted), compare)

RECURSIVE sortWith(_, _)
sortWith(array, compare) ==
  IF array = <<>> THEN <<>>
  ELSE insertSorted(array[Len(array)],
                    sortWith(SubSeq(array, 1, Len(array) - 1), compare), compare)

\* Object.values(milestones).filter(m => m.targetDate)
\*   .sort((a, b) => new Date(a.targetDate) - new Date(b.targetDate))
sortedMilestones(ms) ==
  LET dated == SelectSeq(ms, LAMBDA m : m.targetDate # <<>>)
      byDate == [a \in Range(dated), b \in Range(dated) |->
                   a.targetDate[1].time - b.targetDate[1].time]
  IN  sortWith(dated, byDate)

\* sortedMilestones.filter(m => m.status !== 'Completed' && new Date(m.targetDate) > now):
\* the filter without its status test
upcomingMilestones_AnyStatus(ms, t) ==
  SelectSeq(sortedMilestones(ms), LAMBDA m : m.targetDate[1].time > t)

upcomingMilestones(ms, t) ==
  SelectSeq(sortedMilestones(ms),
            LAMBDA m : m.status # "Completed" /\ m.targetDate[1].time > t)

\* the comparator of readyComponents with the progress difference taken the other
\* way round
readyOrder_Ascending(cs, criticalPath, a, b) ==
  LET aOnPath == Includes(criticalPath, a)
      bOnPath == Includes(criticalPath, b)
  IN  IF aOnPath /\ ~bOnPath THEN 0 - 1
      ELSE IF ~aOnPath /\ bOnPath THEN 1
      ELSE cs[a].completionPercentage - cs[b].completionPercentage

\* the comparator of readyComponents: on the critical path first, then the higher
\* progress first
readyOrder(cs, criticalPath, a, b) ==
  LET aOnPath == Includes(criticalPath, a)
      bOnPath == Includes(criticalPath, b)
  IN  IF aOnPath /\ ~bOnPath THEN 0 - 1
      ELSE IF ~aOnPath /\ bOnPath THEN 1
      ELSE cs[b].completionPercentage - cs[a].completionPercentage

\* part 2: CONFIG.components.filter(...).sort(...)
readyComponents(cs, criticalPath) ==
  LET ready == SelectSeq(CONFIG.components,
                         LAMBDA name : /\ cs[name].status # "Completed"
                                       /\ cs[name].status # "Blocked"
                                       /\ checkDependencyStatus(cs, name).ready)
  IN  sortWith(ready, [a \in Range(ready), b \in Range(ready) |->
                         readyOrder(cs, criticalPath, a, b)])

\* part 3: nextMilestone.components.filter(...).sort(...)
incompleteComponents(cs, members) ==
  LET incomplete == SelectSeq(members, LAMBDA name : cs[name].status # "Completed")
  IN  sortWith(incomplete, [a \in Range(incomplete), b \in Range(incomplete) |->
                              cs[b].completionPercentage - cs[a].completionPercentage])

\* what a command that only prints leaves alone
PrintingFrame ==
  /\ ConfigFixed /\ CallsScreened /\ MilestonesUntouched
  /\ UNCHANGED <<components, componentsFile, logDir, logFile, now, peer>>

\* showPlan, once calculateCriticalPath has returned. It reads comp.name and
\* comp.status on what getComponent gives for the path, the configured components
\* and the members of the upcoming milestones, and its status groups have one key
\* per status level: a TypeError when one of these is missing. Otherwise it prints
\* the path, the upcoming milestones and the three parts of the recommendations.
ShowPlan ==
  /\ pc = "done"
  /\ LET upcoming == upcomingMilestones(milestones, now)
         faults ==
           \/ \E n \in DOMAIN components :
                ~Includes(CONFIG.statusLevels, components[n].status)
           \/ ~allTracked(components, path)
           \/ ~allTracked(components, CONFIG.components)
           \/ \E i \in 1..Len(upcoming) : ~allTracked(components, upcoming[i].components)
     IN  IF faults
         THEN pc' = "TypeError" /\ UNCHANGED plan
         ELSE /\ pc' = "idle"
              /\ plan' = << [ criticalPath         |-> path,
                              upcomingMilestones   |->
                                [i \in 1..Len(upcoming) |-> upcoming[i].name],
                              blockers             |-> findBlockers,
                              readyComponents      |-> readyComponents(components, path),
                              nextMilestone        |->
                                IF Len(upcoming) > 0 THEN <<upcoming[1].name>> ELSE <<>>,
                              incompleteComponents |->
                                IF Len(upcoming) > 0
                                THEN incompleteComponents(components, upcoming[1].components)
                                ELSE <<>> ] >>
  /\ PrintingFrame
  /\ UNCHANGED <<path, current, report>>

\* showStatus prints one line per component, and its details when it is given a name
ShowStatus ==
  /\ pc = "idle"
  /\ PrintingFrame /\ CriticalPathIdle
  /\ UNCHANGED <<plan, report>>

\* showDependencies prints the dependency table and the ASCII graph
ShowDependencies ==
  /\ pc = "idle"
  /\ PrintingFrame /\ CriticalPathIdle
  /\ UNCHANGED <<plan, report>>

\* The directory holds no state yet, or the documents an earlier session left: a
\* status.json in which Appwrite is Completed and BingoBackend is Blocked with one
\* open issue, one in which every component is Completed at 100% but SUPERLogs, in
\* Review at 97%, or one that holds no component at all, and a milestones.json
\* with four dated milestones.
InitPlan ==
  /\ CONFIG = DefaultCONFIG
  /\ DEPENDENCIES = DefaultDEPENDENCIES
  /\ now = 0
  /\ LET fresh == DefaultComponentRecords(DefaultComponents, 0)
         planned == [n \in Range(DefaultComponents) |->
                       IF n = "BingoBackend" THEN EarlierDocument[n]
                       ELSE IF n = "Appwrite"
                       THEN [fresh[n] EXCEPT !.status = "Completed",
                                             !.completionPercentage = 100]
                       ELSE fresh[n]]
         finishing == [n \in Range(DefaultComponents) |->
                         IF n = "SUPERLogs"
                         THEN [fresh[n] EXCEPT !.status = "Review",
                                               !.completionPercentage = 97]
                         ELSE [fresh[n] EXCEPT !.status = "Completed",
                                               !.completionPercentage = 100]]
         empty == [n \in {} |-> fresh[n]]
     IN  \E file \in {<<>>, <<StringifyComponents(planned)>>,
                       <<StringifyComponents(finishing)>>, <<StringifyComponents(empty)>>} :
           components = loadComponents(file, DefaultCONFIG.components, 0)
  /\ componentsFile = saveComponents(components)
  /\ LET fresh == loadMilestones(<<>>, DefaultCONFIG.milestones, 0)
         date(name) == CASE name = "Admin Dashboard"     -> <<IsoString(1)>>
                         [] name = "Backend API"         -> <<IsoString(2)>>
                         [] name = "ML Integration"      -> <<IsoString(3)>>
                         [] name = "Overlay Integration" -> <<IsoString(4)>>
                         [] OTHER                        -> <<>>
         dated == [i \in 1..Len(fresh) |-> [fresh[i] EXCEPT !.targetDate = date(fresh[i].name)]]
     IN  \E file \in {<<>>, <<StringifyMilestones(dated)>>} :
           milestones = loadMilestones(file, DefaultCONFIG.milestones, 0)
  /\ milestonesFile = saveMilestones(milestones)
  /\ logDir = NoFiles
  /\ logFile = 0
  /\ pc = "idle"
  /\ path = <<>>
  /\ current = ""
  /\ report = <<>>
  /\ lastCall = NoCall
  /\ plan = <<>>
  /\ peer = <<>>
  /\ DrawServerInit

\* one command at a time, each a process of its own
PlanSessionOpen == pc = "idle" /\ now < MaxCmds

NextPlan ==
  \/ \E c \in Targets, s \in {"In Progress", "Completed"}, d \in DetailsInputs :
       PlanSessionOpen /\ UpdateStatus(c, s, "y", d)
  \/ \E c \in Targets, p \in { <<"6", "0">>, <<"1", "0", "0">> }, d \in DetailsInputs :
       PlanSessionOpen /\ UpdateProgress(c, p, d, "n")
  \/ PlanSessionOpen /\ CompleteMilestone("Backend API", "y")
  \/ PlanSessionOpen /\ RunDiagnostics
  \/ ShowStatus
  \/ ShowDependencies
  \/ StartCriticalPath
  \/ WalkStep
  \/ ShowPlan

SpecPlan == InitPlan /\ [][NextPlan]_vars

-----------------------------------------------------------------------------
(* A second invocation of the tool on the same directory *)

\* new ComponentTracker() in the second process: the whole document is read once
PeerStart ==
  /\ peer = <<>>
  /\ peer' = <<loadComponents(componentsFile, CONFIG.components, now)>>
  /\ ConfigFixed /\ CallsScreened /\ MilestonesUntouched /\ CriticalPathIdle
  /\ UNCHANGED <<components, componentsFile, logDir, logFile, now, report, plan>>

\* 'Update Status' in a second process that reads status.json again before it
\* changes the record
PeerUpdateStatus_Reloading(component, newStatus, proceed, details) ==
  /\ peer # <<>>
  /\ component \in DOMAIN peer[1]
  /\ Tick
  /\ LET held == loadComponents(componentsFile, CONFIG.components, now)
         depStatus == checkDependencyStatus(held, component)
     IN  IF newStatus = "In Progress" /\ ~depStatus.ready /\ ~IsYes(proceed)
         THEN UNCHANGED <<peer, componentsFile, logDir>>
         ELSE LET cs == updateComponent(held, component, [status |-> newStatus], now').value
              IN  /\ peer' = <<cs>>
                  /\ componentsFile' = saveComponents(cs)
                  /\ logDir' = logEntry(logDir, logFile, component,
                                        <<"Status updated to", newStatus>>, details, now')
  /\ ConfigFixed /\ CallsScreened /\ MilestonesUntouched /\ CriticalPathIdle
  /\ UNCHANGED <<components, logFile, report, plan>>

\* case 'Update Status' in the second process: updateComponent changes the record in
\* the document this process loaded, saveComponents writes that whole document, and
\* the logger appends its line
PeerUpdateStatus(component, newStatus, proceed, details) ==
  /\ peer # <<>>
  /\ component \in DOMAIN peer[1]
  /\ Tick
  /\ LET held == peer[1]
         depStatus == checkDependencyStatus(held, component)
     IN  IF newStatus = "In Progress" /\ ~depStatus.ready /\ ~IsYes(proceed)
         THEN UNCHANGED <<peer, componentsFile, logDir>>
         ELSE LET cs == updateComponent(held, component, [status |-> newStatus], now').value
              IN  /\ peer' = <<cs>>
                  /\ componentsFile' = saveComponents(cs)
                  /\ logDir' = logEntry(logDir, logFile, component,
                                        <<"Status updated to", newStatus>>, details, now')
  /\ ConfigFixed /\ CallsScreened /\ MilestonesUntouched /\ CriticalPathIdle
  /\ UNCHANGED <<components, logFile, report, plan>>

\* two sessions on one directory, their commands in any order
NextRace ==
  \/ \E c \in Targets, p \in ProgressInputs, d \in DetailsInputs, a \in AnswerInputs :
       SessionOpen /\ UpdateProgress(c, p, d, a)
  \/ \E c \in Targets, n \in NoteInputs :
       SessionOpen /\ AddNote(c, n)
  \/ PeerStart
  \/ \E c \in Targets, s \in Range(CONFIG.statusLevels), a \in AnswerInputs, d \in DetailsInputs :
       SessionOpen /\ PeerUpdateStatus(c, s, a, d)

SpecRace == Init /\ [][NextRace]_vars

-----------------------------------------------------------------------------
(* The number-draw server *)

\* the tracker's files and records are not the draw server's
TrackerIdle ==
  UNCHANGED <<CONFIG, DEPENDENCIES, components, componentsFile, milestones, milestonesFile,
              logDir, logFile, now, pc, path, current, report, lastCall, plan, peer>>

\* availableNumbers.splice(randomIndex, 1)
splice(numbers, index) ==
  [i \in 1..(Len(numbers) - 1) |-> IF i < index THEN numbers[i] ELSE numbers[i + 1]]

\* drawNumber without the splice: the number stays available
drawNumber_NoSplice(available, drawn, randomIndex) ==
  IF Len(available) = 0
  THEN [number |-> <<>>, availableNumbers |-> available, drawnNumbers |-> drawn]
  ELSE [number |-> <<available[randomIndex]>>,
        availableNumbers |-> available,
        drawnNumbers |-> Append(drawn, available[randomIndex])]

\* drawNumber(): null (<<>>) when no number is left, else the number at the random
\* index (<<number>>), removed from availableNumbers and pushed on drawnNumbers
drawNumber(available, drawn, randomIndex) ==
  IF Len(available) = 0
  THEN [number |-> <<>>, availableNumbers |-> available, drawnNumbers |-> drawn]
  ELSE [number |-> <<available[randomIndex]>>,
        availableNumbers |-> splice(available, randomIndex),
        drawnNumbers |-> Append(drawn, available[randomIndex])]

\* io.on('connection'): socket.emit('drawnNumbers', drawnNumbers)
Connect(socket) ==
  /\ socket \notin DOMAIN received
  /\ received' = [s \in DOMAIN received \cup {socket} |->
                    IF s = socket THEN drawnNumbers ELSE received[s]]
  /\ TrackerIdle
  /\ UNCHANGED <<availableNumbers, drawnNumbers, emitted>>

\* the draw handler that broadcasts nothing once the numbers are out
Draw_SilentGameOver(socket) ==
  /\ socket \in DOMAIN received
  /\ Len(emitted) < LastNumber + MaxExtraDraws
  /\ \E randomIndex \in (IF Len(availableNumbers) = 0 THEN {0} ELSE 1..Len(availableNumbers)) :
       LET drawn == drawNumber(availableNumbers, drawnNumbers, randomIndex)
       IN  /\ availableNumbers' = drawn.availableNumbers
           /\ drawnNumbers' = drawn.drawnNumbers
           /\ emitted' = IF drawn.number # <<>>
                         THEN Append(emitted, [event |-> "newNumber", payload |-> drawn.number[1]])
                         ELSE emitted
  /\ TrackerIdle
  /\ UNCHANGED received

\* socket.on('draw'): Math.floor(Math.random() * availableNumbers.length) is any
\* index of availableNumbers; io.emit reaches every client
Draw(socket) ==
  /\ socket \in DOMAIN received
  /\ Len(emitted) < LastNumber + MaxExtraDraws
  /\ \E randomIndex \in (IF Len(availableNumbers) = 0 THEN {0} ELSE 1..Len(availableNumbers)) :
       LET drawn == drawNumber(availableNumbers, drawnNumbers, randomIndex)
       IN  /\ availableNumbers' = drawn.availableNumbers
           /\ drawnNumbers' = drawn.drawnNumbers
           /\ emitted' = IF drawn.number # <<>>
                         THEN Append(emitted, [event |-> "newNumber", payload |-> drawn.number[1]])
                         ELSE Append(emitted, [event |-> "gameOver",
                                               payload |-> "Todos os numeros foram sorteados!"])
  /\ TrackerIdle
  /\ UNCHANGED received

\* socket.on('disconnect'): a line on the console
Disconnect(socket) ==
  /\ socket \in DOMAIN received
  /\ received' = [s \in DOMAIN received \ {socket} |-> received[s]]
  /\ TrackerIdle
  /\ UNCHANGED <<availableNumbers, drawnNumbers, emitted>>

\* two clients that connect, draw and disconnect in any order
NextDraw ==
  \/ \E socket \in {"s1", "s2"} : Connect(socket)
  \/ \E socket \in {"s1", "s2"} : Draw(socket)
  \/ \E socket \in {"s1", "s2"} : Disconnect(socket)

SpecDraw == Init /\ [][NextDraw]_vars

-----------------------------------------------------------------------------
(* Properties *)

\* the statuses under which a dependency counts as satisfied
Satisfied == {"Completed", "Review"}

\* the lines of the activity log about component c with the given action label
LinesAbout(c, action) ==
  {i \in 1..Len(activityLog) : activityLog[i].component = c /\ activityLog[i].action = action}

\* the lines a step appends to the activity log
LinesAdded ==
  LET after == activityLogOf(logDir')
  IN  SubSeq(after, Len(activityLog) + 1, Len(after))

\* the step is an Update Progress command on c: its first new log line says so
ProgressStepOn(c) ==
  LET added == LinesAdded
  IN  /\ Len(added) >= 1
      /\ added[1].component = c
      /\ added[1].action[1] = "Progress updated to"

\* typed progress texts and the percentage each has to be stored as: a negative
\* number, zero, a number in range, the upper end, a number above 100, text that is
\* no number, nothing
ProgressCases ==
  { [typed |-> <<"-", "5">>, stored |-> 0],
    [typed |-> <<"0">>, stored |-> 0],
    [typed |-> <<"4", "0">>, stored |-> 40],
    [typed |-> <<"1", "0", "0">>, stored |-> 100],
    [typed |-> <<"2", "5", "0">>, stored |-> 100],
    [typed |-> <<"a", "b", "c">>, stored |-> 0],
    [typed |-> <<>>, stored |-> 0] }

\* C1: every component's completionPercentage is an integer in 0..100 in every
\* reachable state, and an Update Progress command stores 0 for a negative input, 100
\* for an input above 100, 0 for an input that is no number, and the number itself for
\* an input within the range: no Update Progress step on a typed text leaves another
\* percentage than the one the text has to be stored as.
C1_ProgressClamped ==
  /\ \A c \in DOMAIN components : components[c].completionPercentage \in 0..100
  /\ [][/\ \A c \in DOMAIN components : components'[c].completionPercentage \in 0..100
        /\ \A c \in Targets :
             ProgressStepOn(c) =>
               \A case \in ProgressCases :
                 components'[c].completionPercentage # case.stored =>
                   \A d \in DetailsInputs, a \in AnswerInputs :
                     ~UpdateProgress(c, case.typed, d, a)
       ]_vars

\* C1 witness: a progress of 40 was stored, and a later Update Progress command has
\* brought the component to 100
C1_Witness ==
  /\ components["BingoBackend"].completionPercentage = 100
  /\ LinesAbout("BingoBackend", <<"Progress updated to", "40">>) # {}
  /\ LinesAbout("BingoBackend", <<"Progress updated to", "100">>) # {}

\* the positions in the dependency list of n whose component is not satisfied
UnsatisfiedAt(n) ==
  {i \in 1..Len(getComponentDependencies(n)) :
     components[getComponentDependencies(n)[i]].status \notin Satisfied}

\* the k-th smallest element of a set of numbers
KthOf(S, k) == CHOOSE x \in S : Cardinality({y \in S : y < x}) = k - 1

\* C2: for every component n, checkDependencyStatus(n).ready holds iff every declared
\* dependency of n has status Completed or Review; blockers lists exactly the
\* unsatisfied dependencies with their current status, in declaration order; ready iff
\* blockers is empty; a component without dependencies is ready.
C2_ReadinessExact ==
  \A n \in Range(CONFIG.components) :
    LET r    == checkDependencyStatus(components, n)
        deps == getComponentDependencies(n)
    IN  /\ r.ready <=> \A i \in 1..Len(deps) : components[deps[i]].status \in Satisfied
        /\ r.ready <=> r.blockers = <<>>
        /\ Len(r.blockers) = Cardinality(UnsatisfiedAt(n))
        /\ \A k \in 1..Len(r.blockers) :
             r.blockers[k] = [name   |-> deps[KthOf(UnsatisfiedAt(n), k)],
                              status |-> components[deps[KthOf(UnsatisfiedAt(n), k)]].status]
        /\ deps = <<>> => r.ready

\* C2 witness: BingoBlitz depends on BingoFlash and BingoBackend; both are blockers,
\* in that order, after BingoBackend has been set to In Progress
C2_Witness ==
  /\ components["BingoBackend"].status = "In Progress"
  /\ checkDependencyStatus(components, "BingoBlitz") =
       [ready |-> FALSE,
        blockers |-> <<[name |-> "BingoFlash", status |-> "Not Started"],
                       [name |-> "BingoBackend", status |-> "In Progress"]>>]

\* the names checkDependencyStatus(n) reports as blockers on the records cs
BlockerNames(cs, n) ==
  LET blockers == checkDependencyStatus(cs, n).blockers
  IN  {blockers[k].name : k \in 1..Len(blockers)}

\* C3: in every step that changes the status of a component d, for every component n
\* that depends on d: afterwards d is a blocker of n iff d's new status is neither
\* Completed nor Review, every other dependency of n is a blocker of n iff it was one
\* before, and n is ready iff it has no blocker.
C3_ReadinessFollowsStatus ==
  [][\A d \in DOMAIN components :
       components'[d].status # components[d].status =>
         \A n \in Range(CONFIG.components) :
           Includes(getComponentDependencies(n), d) =>
             LET before == BlockerNames(components, n)
                 after  == BlockerNames(components', n)
             IN  /\ (d \in after) <=> (components'[d].status \notin Satisfied)
                 /\ \A e \in Range(getComponentDependencies(n)) \ {d} :
                      (e \in after) <=> (e \in before)
                 /\ checkDependencyStatus(components', n).ready <=> (after = {})
    ]_vars

\* C3 witness: BingoFlash depends on BingoBackend alone; BingoBackend has been set to
\* Completed and BingoFlash is ready with no blockers
C3_Witness ==
  /\ components["BingoBackend"].status = "Completed"
  /\ LinesAbout("BingoBackend", <<"Status updated to", "Completed">>) # {}
  /\ checkDependencyStatus(components, "BingoFlash") = [ready |-> TRUE, blockers |-> <<>>]

\* C4: every step that changes a component record or a milestone record appends at
\* least one line to the activity log.
C4_EveryMutationLogged ==
  [][(components' # components \/ milestones' # milestones) =>
       Len(activityLogOf(logDir')) > Len(activityLog)]_vars

\* some component occurs twice in the sequence
HasRepeat(s) == \E i, j \in 1..Len(s) : i < j /\ s[i] = s[j]

\* C5: the backward walk does not go on once it has come back to a component it has
\* already put on the path: by then it has failed with a CyclicDependency error.
C5_CycleFailsWithError == HasRepeat(path) => pc = "CyclicDependency"

progressOf(n) == components[n].completionPercentage

\* x is the element of names with the lowest completionPercentage, the first such in
\* the order of names
IsFirstLowest(names, x) ==
  \E i \in 1..Len(names) :
    /\ names[i] = x
    /\ \A j \in 1..Len(names) : progressOf(names[j]) >= progressOf(x)
    /\ \A j \in 1..(i - 1) : progressOf(names[j]) > progressOf(x)

\* the components no entry of the table lists as a dependency, in configuration order
Sinks ==
  SelectSeq(CONFIG.components,
            LAMBDA n : \A i \in 1..Len(DEPENDENCIES) : ~Includes(DEPENDENCIES[i].deps, n))

\* the components reachable from those of S along at most k dependency edges each
RECURSIVE DependenciesWithin(_, _)
DependenciesWithin(S, k) ==
  IF k = 0 THEN S
  ELSE DependenciesWithin(S \cup UNION {Range(getComponentDependencies(n)) : n \in S}, k - 1)

Acyclic ==
  \A n \in Range(CONFIG.components) :
    n \notin DependenciesWithin(Range(getComponentDependencies(n)), Len(CONFIG.components))

HasEdge == \E i \in 1..Len(DEPENDENCIES) : DEPENDENCIES[i].deps # <<>>

\* C6: on an acyclic table with at least one dependency edge the returned path ends
\* with the lowest-progress component among those without dependents (the first of
\* them in configuration order on a tie), each element is the lowest-progress
\* dependency of its successor (the first declared on a tie), and the first element
\* has no dependencies.
C6_CriticalPathRule ==
  (pc = "done" /\ Acyclic /\ HasEdge) =>
    /\ Len(path) >= 1
    /\ IsFirstLowest(Sinks, path[Len(path)])
    /\ \A i \in 1..(Len(path) - 1) :
         IsFirstLowest(getComponentDependencies(path[i + 1]), path[i])
    /\ getComponentDependencies(path[1]) = <<>>

\* C6 witness: C depends on B, B depends on A, progress A = 80, B = 20, C = 50: the
\* walk has returned [A, B, C]
C6_Witness ==
  /\ DEPENDENCIES = << [key |-> "A", deps |-> <<>>], [key |-> "B", deps |-> <<"A">>],
                       [key |-> "C", deps |-> <<"B">>] >>
  /\ progressOf("A") = 80 /\ progressOf("B") = 20 /\ progressOf("C") = 50
  /\ pc = "done"
  /\ path = <<"A", "B", "C">>

\* C7: when no component declares a dependency the returned path is empty.
C7_NoEdgesEmptyPath == (pc = "done" /\ ~HasEdge) => path = <<>>

\* C8: every step that changes a component's record leaves that record's lastUpdated
\* at the time of the step.
C8_MutationRefreshesLastUpdated ==
  [][\A c \in DOMAIN components :
       components'[c] # components[c] => components'[c].lastUpdated = now']_vars

\* the last k elements of s
LastOf(s, k) == SubSeq(s, Len(s) - Min2(k, Len(s)) + 1, Len(s))

\* C9: a report written when the log holds more than RecentLimit lines has as its
\* recentActivity the RecentLimit lines appended last, and none older.
C9_RecentActivityIsLatest ==
  (report # <<>> /\ report[1].timestamp = now /\ Len(activityLog) > RecentLimit) =>
    Range(report[1].recentActivity) = Range(LastOf(activityLog, RecentLimit))

\* the command declines: In Progress was chosen, the dependencies are not ready and
\* the answer to 'Proceed anyway?' is not yes
Declines(c, s, a) ==
  s = "In Progress" /\ ~checkDependencyStatus(components, c).ready /\ ~IsYes(a)

\* C10: while the session runs, an Update Status command can set any configured
\* status on a component whatever its current status and its dependencies are; a
\* command that is not declined leaves the component at the chosen status and logs the
\* update, and a declined one leaves the component records, their file and the log
\* unchanged.
C10_StatusNeverBlocked ==
  /\ [](SessionOpen =>
          \A c \in Targets, s \in Range(CONFIG.statusLevels) :
            ENABLED (\E d \in DetailsInputs :
                       UpdateStatus(c, s, "y", d) /\ components'[c].status = s))
  /\ [][\A c \in Targets, s \in Range(CONFIG.statusLevels), a \in AnswerInputs,
          d \in DetailsInputs :
          UpdateStatus(c, s, a, d) =>
            IF Declines(c, s, a)
            THEN UNCHANGED <<components, componentsFile, logDir>>
            ELSE /\ components'[c].status = s
                 /\ Len(activityLogOf(logDir')) = Len(activityLog) + 1
       ]_vars

\* C10 witness: BingoFlash was set to In Progress while its dependency BingoBackend
\* blocks it
C10_Witness ==
  /\ components["BingoFlash"].status = "In Progress"
  /\ LinesAbout("BingoFlash", <<"Status updated to", "In Progress">>) # {}
  /\ ~checkDependencyStatus(components, "BingoFlash").ready

C12_IndexOutOfRangeFailsCleanly ==
  [][/\ \A n \in CallNames, k \in IndexInputs :
          ( /\ n \in DOMAIN components
            /\ k \notin 0..(Len(components[n].issues) - 1)
            /\ CallResolveIssue(n, k) )
          => /\ lastCall'.threw = "Issue index not found"
             /\ UNCHANGED <<components, componentsFile, logDir>>
     /\ \A k \in IssueNumberInputs, r \in ResolutionInputs, b \in AnswerInputs :
          ( /\ IssueTarget \in DOMAIN components
            /\ \/ parseInt(k).nan
               \/ parseInt(k).value \notin 1..Len(openIssues(components[IssueTarget]))
            /\ ResolveIssue(IssueTarget, k, r, b) )
          => UNCHANGED <<components, componentsFile, logDir>>
    ]_vars

\* C12 witness: BingoBackend holds a resolved and an open issue, and resolveIssue was
\* called with index -1
C12_Witness ==
  /\ lastCall = [op |-> "resolveIssue", name |-> "BingoBackend", index |-> 0 - 1,
                 threw |-> "Issue index not found"]
  /\ Len(components["BingoBackend"].issues) = 2
  /\ ~components["BingoBackend"].issues[2].resolved

AllResolved(comp) == \A i \in 1..Len(comp.issues) : comp.issues[i].resolved

\* C13: a Resolve Issue command that resolves an issue leaves the component In
\* Progress when it was Blocked, no issue is left unresolved and the answer to the
\* offer is yes; in every other case (the offer declined, other issues still open, or
\* a status other than Blocked) the status is what it was.
C13_UnblockOfferedOnLastIssue ==
  [][\A k \in IssueNumberInputs, r \in ResolutionInputs, b \in AnswerInputs :
       ( /\ IssueTarget \in DOMAIN components
         /\ ResolveIssue(IssueTarget, k, r, b)
         /\ components' # components )
       => LET before == components[IssueTarget]
              after  == components'[IssueTarget]
          IN  /\ Len(openIssues(after)) = Len(openIssues(before)) - 1
              /\ after.status =
                   IF before.status = "Blocked" /\ AllResolved(after) /\ IsYes(b)
                   THEN "In Progress"
                   ELSE before.status
    ]_vars

\* C13 witness: the last open issue of the Blocked BingoBackend was resolved and the
\* offer accepted
C13_Witness ==
  /\ components["BingoBackend"].status = "In Progress"
  /\ Len(components["BingoBackend"].issues) = 2
  /\ AllResolved(components["BingoBackend"])
  /\ LinesAbout("BingoBackend", <<"Issue resolved">>) # {}
  /\ \E i \in LinesAbout("BingoBackend", <<"Status updated to", "In Progress">>) :
       activityLog[i].details = <<"All blocking issues resolved">>

\* C14: an Update Progress command on a component leaves its status Completed when
\* the stored progress is 100, the status was not Completed and the answer to 'Mark
\* component as Completed?' is yes; in every other case (progress below 100, the
\* offer refused, already Completed) the status is what it was; the status of every
\* other component is untouched.
C14_ProgressKeepsStatus ==
  [][\A c \in Targets :
       ProgressStepOn(c) =>
         \A p \in ProgressInputs, d \in DetailsInputs, a \in AnswerInputs :
           UpdateProgress(c, p, d, a) =>
             /\ components'[c].status =
                  IF /\ components'[c].completionPercentage = 100
                     /\ components[c].status # "Completed"
                     /\ IsYes(a)
                  THEN "Completed"
                  ELSE components[c].status
             /\ \A o \in DOMAIN components \ {c} : components'[o].status = components[o].status
    ]_vars

\* C14 witness: BingoFlash was brought to 100% and the offer refused: it is still
\* Not Started
C14_Witness ==
  /\ components["BingoFlash"].completionPercentage = 100
  /\ components["BingoFlash"].status = "Not Started"
  /\ LinesAbout("BingoFlash", <<"Progress updated to", "100">>) # {}

\* old is a prefix of new as far as `field` goes
KeepsField(old, new, field) ==
  /\ Len(new) >= Len(old)
  /\ \A i \in 1..Len(old) : new[i][field] = old[i][field]

\* C15: in every step the notes and issues of every component keep their entries,
\* in place, with their content and timestamp, and gain at most one entry at the
\* end; a new issue is unresolved; addNote and addIssue, called directly or through
\* the Add Note and Report Issue commands, add exactly one entry, at the end, with
\* the content given.
C15_NotesAndIssuesAppendOnly ==
  [][/\ \A c \in DOMAIN components :
          LET old == components[c]
              new == components'[c]
          IN  /\ KeepsField(old.notes, new.notes, "content")
              /\ KeepsField(old.notes, new.notes, "timestamp")
              /\ KeepsField(old.issues, new.issues, "content")
              /\ KeepsField(old.issues, new.issues, "timestamp")
              /\ Len(new.notes) <= Len(old.notes) + 1
              /\ Len(new.issues) <= Len(old.issues) + 1
              /\ \A i \in (Len(old.issues) + 1)..Len(new.issues) : ~new.issues[i].resolved
     /\ \A c \in DOMAIN components, t \in NoteInputs :
          (CallAddNote(c, t) \/ (c = IssueTarget /\ AddNote(c, t)))
          => /\ Len(components'[c].notes) = Len(components[c].notes) + 1
             /\ components'[c].notes[Len(components'[c].notes)].content = t
             /\ components'[c].issues = components[c].issues
     /\ \A c \in DOMAIN components, i \in IssueInputs :
          (CallAddIssue(c, i) \/ (c = IssueTarget /\ \E b \in AnswerInputs : ReportIssue(c, i, b)))
          => /\ Len(components'[c].issues) = Len(components[c].issues) + 1
             /\ components'[c].issues[Len(components'[c].issues)].content = i
             /\ components'[c].notes = components[c].notes
    ]_vars

\* C15 witness: BingoBackend, which held the note 'started' and the issues 'bug'
\* (resolved) and 'crash', was given a note and then the issue 'bug' again
C15_Witness ==
  LET b == components["BingoBackend"]
  IN  /\ Len(b.notes) = 2 /\ b.notes[1].content = "started" /\ b.notes[2].content = "note"
      /\ Len(b.issues) = 3
      /\ b.issues[1].content = "bug" /\ b.issues[1].resolved
      /\ b.issues[2].content = "crash"
      /\ b.issues[3].content = "bug" /\ ~b.issues[3].resolved
      /\ b.notes[2].timestamp < b.issues[3].timestamp

\* C16: for all configured components a and b, b is among getComponentDependents(a)
\* exactly when a is among getComponentDependencies(b), and getComponentDependents
\* lists no component twice.
C16_DependentsInverse ==
  \A a \in Range(CONFIG.components) :
    /\ \A b \in Range(CONFIG.components) :
         Includes(getComponentDependents(a), b) <=> Includes(getComponentDependencies(b), a)
    /\ Range(getComponentDependents(a)) \subseteq Range(CONFIG.components)
    /\ Cardinality(Range(getComponentDependents(a))) = Len(getComponentDependents(a))

\* C16 witness: on the shipped table the walk has used getComponentDependents to find
\* the leaves; Appwrite has three dependents, BingoBlitz none
C16_Witness ==
  /\ DEPENDENCIES = DefaultDEPENDENCIES
  /\ pc = "done"
  /\ getComponentDependents("Appwrite") = <<"BingoBackend", "BingoCore", "SUPERLogs">>
  /\ getComponentDependents("BingoBlitz") = <<>>
  /\ leafComponents = <<"BingoCore", "BingoBlitz", "SUPERLogs">>

\* what a member adds to a milestone's total: its completionPercentage, 0 when the
\* tracker has no record of it
Contribution(n) == IF n \in DOMAIN components THEN components[n].completionPercentage ELSE 0

\* the contributions of the first k members, added from the last one down
RECURSIVE ContributionsUpTo(_, _)
ContributionsUpTo(members, k) ==
  IF k = 0 THEN 0 ELSE ContributionsUpTo(members, k - 1) + Contribution(members[k])

\* C17: for every milestone, calculateMilestoneProgress is an integer in 0..100; it
\* is 0 for a milestone without members, and otherwise the integer nearest to
\* total / count (the upper one at a half), where total adds each member's
\* completionPercentage, 0 for a member without a record, and count is the number
\* of members.
C17_MilestoneProgressIsRoundedMean ==
  \A i \in 1..Len(milestones) :
    LET members == milestones[i].components
        count   == Len(members)
        total   == ContributionsUpTo(members, count)
        p       == calculateMilestoneProgress(milestones, milestones[i].name, components)
    IN  /\ p \in 0..100
        /\ count = 0 => p = 0
        /\ count > 0 => /\ 2 * count * p <= 2 * total + count
                        /\ 2 * total + count < 2 * count * (p + 1)

\* C17 witness: Launch holds BingoBackend (45%) and Ghost (no record): the Complete
\* Milestone command computed 23% for it and completed it on confirmation
C17_Witness ==
  /\ hasMilestone(milestones, "Launch")
  /\ getMilestone(milestones, "Launch").components = <<"BingoBackend", "Ghost">>
  /\ getMilestone(milestones, "Launch").status = "Completed"
  /\ lastCall.op = "addMilestone"
  /\ components["BingoBackend"].completionPercentage = 45
  /\ calculateMilestoneProgress(milestones, "Launch", components) = 23

\* C18: no two milestones ever bear the same name; addMilestone called with a name
\* that is taken throws 'Milestone ... already exists' and leaves every milestone
\* record and milestones.json as they were, and so does the Create Milestone command
\* given such a name.
C18_DuplicateMilestoneRejected ==
  /\ [](\A i, j \in 1..Len(milestones) : milestones[i].name = milestones[j].name => i = j)
  /\ [][\A m \in CallMilestoneNames :
          hasMilestone(milestones, m) =>
            /\ \A c \in CallMemberInputs :
                 CallAddMilestone(m, c)
                 => /\ lastCall'.threw = "Milestone already exists"
                    /\ UNCHANGED <<milestones, milestonesFile>>
            /\ CreateMilestone(m, << <<"2">> >>, [text |-> "", time |-> 0])
               => UNCHANGED <<milestones, milestonesFile>>
       ]_vars

\* C18 witness: Launch was created with two members, and a second addMilestone for
\* Launch threw
C18_Witness ==
  /\ lastCall = [op |-> "addMilestone", name |-> "Launch", index |-> 0,
                 threw |-> "Milestone already exists"]
  /\ Len(milestones) = Len(CONFIG.milestones) + 1
  /\ getMilestone(milestones, "Launch").components = <<"BingoBackend", "BingoCore">>

\* C19: completeMilestone called for a milestone that exists returns with that
\* milestone Completed and its completedAt at the time of the call, whatever its
\* progress and membership, and changes nothing else of it or of any other
\* milestone; the Complete Milestone command completes the milestone unless its
\* progress is below 100 and the confirmation is refused, and then changes nothing.
C19_CompleteIgnoresProgress ==
  [][\A m \in CallMilestoneNames :
       hasMilestone(milestones, m) =>
         LET k == milestoneIndex(milestones, m)
             completed == [milestones EXCEPT ![k].status = "Completed",
                                             ![k].completedAt = <<now'>>]
         IN  /\ CallCompleteMilestone(m)
                => /\ lastCall'.threw = ""
                   /\ milestones' = completed
                   /\ milestonesFile' = saveMilestones(completed)
             /\ \A b \in AnswerInputs :
                  CompleteMilestone(m, b)
                  => IF calculateMilestoneProgress(milestones, m, components) < 100
                        /\ ~IsYes(b)
                     THEN UNCHANGED <<milestones, milestonesFile>>
                     ELSE milestones' = completed
    ]_vars

\* C19 witness: Launch was created without members (progress 0) and completeMilestone
\* completed it
C19_Witness ==
  /\ lastCall = [op |-> "completeMilestone", name |-> "Launch", index |-> 0, threw |-> ""]
  /\ getMilestone(milestones, "Launch").components = <<>>
  /\ calculateMilestoneProgress(milestones, "Launch", components) = 0
  /\ getMilestone(milestones, "Launch").status = "Completed"
  /\ getMilestone(milestones, "Launch").completedAt = <<now>>

\* C20: in every state reached by milestone commands from the default milestones,
\* every milestone's components list names only configured components and names
\* none of them twice.
C20_MilestoneMembersValid ==
  \A i \in 1..Len(milestones) :
    LET members == milestones[i].components
    IN  /\ Range(members) \subseteq Range(CONFIG.components)
        /\ \A j, k \in 1..Len(members) : members[j] = members[k] => j = k

\* C20 witness: Launch was created with 5, 2, 5 typed at 'Component #', and BingoFlash
\* was added to it afterwards
C20_Witness ==
  /\ hasMilestone(milestones, "Launch")
  /\ getMilestone(milestones, "Launch").components = <<"Appwrite", "BingoBackend", "BingoFlash">>

-----------------------------------------------------------------------------
(* The commands that only print *)

\* a step of the status, dependencies, plan or diagnose command
PrintingStep ==
  ShowStatus \/ ShowDependencies \/ StartCriticalPath \/ WalkStep \/ ShowPlan \/ RunDiagnostics

\* C21: the status, dependencies, plan and diagnose commands leave every component
\* record, every milestone record, both persisted documents and the activity log
\* as they were
C21_PrintingCommandsReadOnly ==
  [][PrintingStep =>
       UNCHANGED <<components, componentsFile, milestones, milestonesFile, logDir>>]_vars

\* a plan and a diagnostic report were produced in a session that also changed the
\* tracker state
C21_Witness ==
  /\ plan # <<>>
  /\ report # <<>>
  /\ Len(activityLog) > 0

-----------------------------------------------------------------------------
(* The activity log *)

IsPrefix(s, t) == Len(s) <= Len(t) /\ SubSeq(t, 1, Len(s)) = s

\* C22: the activity log is append-only: every step leaves each log file, and the
\* log as a whole, with what it held as a prefix of what it holds, so no entry is
\* ever modified, reordered or removed
C22_LogAppendOnly ==
  [][/\ \A day \in DOMAIN logDir :
          day \in DOMAIN logDir' /\ IsPrefix(logDir[day], logDir'[day])
     /\ IsPrefix(activityLog, activityLogOf(logDir'))]_vars

\* the log holds the line of an earlier day and two lines of this session
C22_Witness ==
  /\ Cardinality(DOMAIN logDir) = 2
  /\ Len(activityLog) >= 3

-----------------------------------------------------------------------------
(* Persistence *)

\* C23: after every completed command a reload of status.json and milestones.json
\* yields records equal in every field to those held in memory
C23_ReloadEqualsMemory ==
  /\ loadComponents(componentsFile, CONFIG.components, now) = components
  /\ loadMilestones(milestonesFile, CONFIG.milestones, now) = milestones

-----------------------------------------------------------------------------
(* Two invocations at once *)

\* the second process wrote status.json in this step
PeerWrote == peer # <<>> /\ peer' # peer

\* C24: two invocations race: each writes back the whole document it loaded, so a
\* write of the second process puts every record it did not change into the file
\* as that process loaded it, whatever the other process has written since, while
\* the activity log keeps every line and gains this one
C24_WholeDocumentWrittenBack ==
  [][PeerWrote =>
       /\ \E c \in DOMAIN peer[1] :
            \A n \in DOMAIN peer[1] \ {c} :
              ParseComponents(componentsFile'[1])[n] = peer[1][n]
       /\ Len(activityLogOf(logDir')) = Len(activityLog) + 1
       /\ IsPrefix(activityLog, activityLogOf(logDir'))]_vars

\* the lost update: the log holds the line of the first process's progress update
\* and the line of the second process's status update, and status.json no longer
\* holds the progress the first process wrote
C24_Witness ==
  \E c \in DOMAIN components :
    /\ peer # <<>>
    /\ \E i \in 1..Len(activityLog) :
         /\ activityLog[i].component = c
         /\ activityLog[i].action = <<"Progress updated to", "40">>
         /\ \E j \in (i + 1)..Len(activityLog) : activityLog[j].action[1] = "Status updated to"
    /\ components[c].completionPercentage = 40
    /\ ParseComponents(componentsFile[1])[c].completionPercentage = 0
    /\ ParseComponents(componentsFile[1]) = peer[1]

-----------------------------------------------------------------------------
(* The diagnostic summary *)

\* C25: the summary's overallProgress is the mean of completionPercentage over all
\* components (the sum is overallProgress times their number), and
\* readyForProduction holds exactly when overallProgress is 100
C25_OverallProgressIsMean ==
  report # <<>> =>
    LET summary == report[1].summary
        cs      == report[1].componentStatus
    IN  /\ ~summary.overallProgress.nan
        /\ summary.overallProgress.value * Cardinality(DOMAIN cs) = sumProgress(cs, DOMAIN cs)
        /\ summary.readyForProduction <=> summary.overallProgress.value = 100

\* blockers lists, in declaration order, exactly the Blocked components of cs, each
\* with exactly the contents of its unresolved issues
IsBlockerList(blockers, cs) ==
  LET blocked == SelectSeq(CONFIG.components, LAMBDA n : cs[n].status = "Blocked")
  IN  /\ Len(blockers) = Len(blocked)
      /\ \A i \in 1..Len(blocked) :
           LET open == SelectSeq(cs[blocked[i]].issues, LAMBDA issue : ~issue.resolved)
           IN  /\ blockers[i].component = blocked[i]
               /\ Len(blockers[i].issues) = Len(open)
               /\ \A k \in 1..Len(open) : blockers[i].issues[k] = open[k].content

\* C26: the blocked-component list of the summary and of part 1 of the
\* recommendations holds, in declaration order, exactly the components whose status
\* is Blocked, each with exactly the contents of its unresolved issues; it is empty
\* when no component is Blocked
C26_BlockersListed ==
  /\ [](report # <<>> => IsBlockerList(report[1].summary.blockers, report[1].componentStatus))
  /\ [][(pc = "done" /\ pc' = "idle") => IsBlockerList(plan'[1].blockers, components)]_vars

\* the plan and the summary name BingoBackend, Blocked, with its open issue and
\* without its resolved one
C26_Witness ==
  /\ plan # <<>>
  /\ report # <<>>
  /\ plan[1].blockers = <<[component |-> "BingoBackend", issues |-> <<"crash">>]>>
  /\ report[1].summary.blockers = plan[1].blockers
  /\ \E i \in 1..Len(components["BingoBackend"].issues) :
       components["BingoBackend"].issues[i].resolved

-----------------------------------------------------------------------------
(* The recommendations of the plan *)

\* the step on which showPlan prints its plan
PlanPrinted == pc = "done" /\ pc' = "idle"

\* the position of name in CONFIG.components
Declared(name) == FirstIndex({i \in 1..Len(CONFIG.components) : CONFIG.components[i] = name})

\* the components part 2 is about: neither Completed nor Blocked, every dependency
\* Completed or in Review
ReadyToWorkOn ==
  {n \in Range(CONFIG.components) :
     /\ components[n].status \notin {"Completed", "Blocked"}
     /\ \A d \in Range(getComponentDependencies(n)) : components[d].status \in Satisfied}

\* C27: part 2 of the recommendations holds exactly the components that are neither
\* Completed nor Blocked and whose dependencies are all ready, each once, those on
\* the critical path before those off it and, within each group, in descending
\* completionPercentage
C27_ReadyComponentsOrdered ==
  [][PlanPrinted =>
       LET ready  == plan'[1].readyComponents
           onPath(n) == Includes(plan'[1].criticalPath, n)
       IN  /\ Range(ready) = ReadyToWorkOn
           /\ Len(ready) = Cardinality(ReadyToWorkOn)
           /\ \A i, j \in 1..Len(ready) :
                i < j =>
                  /\ onPath(ready[j]) => onPath(ready[i])
                  /\ (onPath(ready[i]) <=> onPath(ready[j])) =>
                       components[ready[i]].completionPercentage
                         >= components[ready[j]].completionPercentage]_vars

\* a plan whose part 2 has a component on the critical path in front of two off it,
\* the one further on declared earlier and at a higher progress than the last
C27_Witness ==
  /\ plan # <<>>
  /\ LET ready == plan[1].readyComponents
     IN  /\ Len(ready) = 3
         /\ Includes(plan[1].criticalPath, ready[1])
         /\ ~Includes(plan[1].criticalPath, ready[2])
         /\ ~Includes(plan[1].criticalPath, ready[3])
         /\ Declared(ready[2]) < Declared(ready[1])
         /\ components[ready[2]].completionPercentage > components[ready[3]].completionPercentage

\* the instant a targetDate denotes, whether it is held as a Date or as a string
TargetTime(m) == m.targetDate[1].time

\* the milestones part 3 may be about: dated strictly after now and not Completed
Upcoming ==
  {i \in 1..Len(milestones) :
     /\ milestones[i].targetDate # <<>>
     /\ milestones[i].status # "Completed"
     /\ TargetTime(milestones[i]) > now}

\* C28: part 3 of the recommendations is about the milestone with the earliest
\* targetDate strictly in the future among those not Completed, and lists its
\* members that are not Completed in descending completionPercentage; it is empty
\* when there is no such milestone
C28_NextMilestoneRecommended ==
  [][PlanPrinted =>
       LET next == plan'[1].nextMilestone
           incomplete == plan'[1].incompleteComponents
       IN  IF Upcoming = {}
           THEN next = <<>> /\ incomplete = <<>>
           ELSE /\ Len(next) = 1
                /\ \E i \in Upcoming :
                     /\ milestones[i].name = next[1]
                     /\ \A k \in Upcoming : TargetTime(milestones[i]) <= TargetTime(milestones[k])
                     /\ Range(incomplete) =
                          {n \in Range(milestones[i].components) :
                             components[n].status # "Completed"}
                     /\ Len(incomplete) = Cardinality(Range(incomplete))
                /\ \A a, b \in 1..Len(incomplete) :
                     a < b => components[incomplete[a]].completionPercentage
                                >= components[incomplete[b]].completionPercentage]_vars

\* a plan about ML Integration, dated after the Completed Backend API and before the
\* earlier listed Overlay Integration, whose members are not in the order they were
\* given in
C28_Witness ==
  /\ plan # <<>>
  /\ plan[1].nextMilestone = <<"ML Integration">>
  /\ getMilestone(milestones, "Backend API").status = "Completed"
  /\ TargetTime(getMilestone(milestones, "Backend API")) > now
  /\ Len(plan[1].incompleteComponents) = 3
  /\ plan[1].incompleteComponents # getMilestone(milestones, "ML Integration").components

-----------------------------------------------------------------------------
(* Degenerate inputs *)

\* C29: when no component is free of dependents, calculateCriticalPath returns an
\* explicit empty result: the walk ends, and the path it returns holds nothing
C29_NoSinkEmptyPath ==
  (leafComponents = <<>> /\ pc # "idle") => (pc = "done" => path = <<>>) /\ pc # "TypeError"

\* C30: when the component set is empty, the summary of a diagnose run comes back
\* without a fault and with a guarded overall-progress result, no NaN
C30_EmptySetGuarded ==
  [][(DOMAIN components = {} /\ RunDiagnostics) =>
       /\ pc' # "TypeError"
       /\ report' # <<>>
       /\ ~report'[1].summary.overallProgress.nan]_vars

-----------------------------------------------------------------------------
(* The component records over a session *)

PhaseStepOn(c) ==
  LET added == LinesAdded
  IN  /\ Len(added) = 1
      /\ added[1].component = c
      /\ added[1].action[1] = "Phase updated to"

\* C32: while the session runs, an Update Phase command can set any configured phase
\* on a component whatever its current phase and status are; the command changes
\* that component's phase and lastUpdated and nothing else: its status,
\* completionPercentage, notes and issues, and every other record, are as before
C32_PhaseSetFreely ==
  /\ [](SessionOpen =>
          \A c \in Targets, ph \in Range(CONFIG.phases) :
            ENABLED (\E d \in DetailsInputs :
                       UpdatePhase(c, ph, d) /\ components'[c].phase = ph))
  /\ [][\A c \in Targets :
          PhaseStepOn(c) =>
            /\ components'[c] = [components[c] EXCEPT !.phase = components'[c].phase,
                                                      !.lastUpdated = components'[c].lastUpdated]
            /\ LinesAdded[1].action = <<"Phase updated to", components'[c].phase>>
            /\ \A o \in DOMAIN components \ {c} : components'[o] = components[o]
       ]_vars

\* a Blocked component in phase Testing: its phase was set after its status
C32_Witness ==
  \E c \in Targets :
    /\ components[c].status = "Blocked"
    /\ components[c].phase = "Testing"
    /\ LinesAbout(c, <<"Phase updated to", "Testing">>) # {}
    /\ \E i \in LinesAbout(c, <<"Status updated to", "Blocked">>) :
         \A j \in LinesAbout(c, <<"Phase updated to", "Testing">>) : i < j

-----------------------------------------------------------------------------
(* Dependencies without a record *)

\* the declared dependencies of n that have no record in the tracker
Untracked(n) == {d \in Range(getComponentDependencies(n)) : d \notin DOMAIN components}

\* C33: checkDependencyStatus(n) returns also when a declared dependency of n has no
\* record: that dependency is among the blockers, once, with status Unknown, and
\* ready is false
C33_UntrackedDependencyUnknown ==
  \A n \in Range(CONFIG.components) :
    LET result == checkDependencyStatus(components, n)
    IN  \A d \in Untracked(n) :
          /\ ~result.ready
          /\ Cardinality({i \in 1..Len(result.blockers) : result.blockers[i].name = d}) = 1
          /\ \E i \in 1..Len(result.blockers) :
               result.blockers[i] = [name |-> d, status |-> "Unknown"]

\* the tracker runs on the earlier document, which has no record of Appwrite, a
\* dependency of the tracked BingoBackend, and a method has been called
C33_Witness ==
  /\ "BingoBackend" \in DOMAIN components
  /\ Untracked("BingoBackend") = {"Appwrite"}
  /\ lastCall.op # ""
  /\ checkDependencyStatus(components, "BingoBackend").blockers
       = <<[name |-> "Appwrite", status |-> "Unknown"]>>

-----------------------------------------------------------------------------
(* Issues *)

\* C34: a Resolve Issue command that resolves an issue resolves the one at the
\* selected position of the list of open issues, and the resolved flag of every
\* other issue is what it was, also when open issues have the same content
C34_SelectedIssueResolved ==
  [][\A k \in IssueNumberInputs, r \in ResolutionInputs, a \in AnswerInputs :
       (Len(LinesAdded) >= 1 /\ ResolveIssue(IssueTarget, k, r, a)) =>
         LET comp     == components[IssueTarget]
             selected == openIssues(comp)[parseInt(k).value]
         IN  \A i \in 1..Len(comp.issues) :
               components'[IssueTarget].issues[i].resolved
                 = (i = selected \/ comp.issues[i].resolved)]_vars

\* C35: in every state an issue has a resolvedAt stamp iff it is resolved, and no
\* step makes a resolved issue unresolved
C35_ResolutionMonotonic ==
  /\ [](\A n \in DOMAIN components :
          \A i \in 1..Len(components[n].issues) :
            components[n].issues[i].resolved <=> components[n].issues[i].resolvedAt # <<>>)
  /\ [][\A n \in DOMAIN components :
          \A i \in 1..Len(components[n].issues) :
            components[n].issues[i].resolved =>
              /\ n \in DOMAIN components'
              /\ i <= Len(components'[n].issues)
              /\ components'[n].issues[i].resolved]_vars

\* an issue was resolved in this session, resolveIssue was then called on it again,
\* and it is still resolved
C35_Witness ==
  /\ lastCall = [op |-> "resolveIssue", name |-> "BingoBackend", index |-> 1, threw |-> ""]
  /\ now = 2
  /\ \A i \in 1..Len(components["BingoBackend"].issues) :
       components["BingoBackend"].issues[i].resolved
  /\ LinesAbout("BingoBackend", <<"Issue resolved">>) # {}

-----------------------------------------------------------------------------
(* Milestone completion *)

\* C36: in every state reached through the milestone commands a milestone has a
\* completedAt stamp iff its status is Completed
C36_CompletedAtIffCompleted ==
  \A i \in 1..Len(milestones) :
    milestones[i].completedAt # <<>> <=> milestones[i].status = "Completed"

-----------------------------------------------------------------------------
(* Ready for production *)

\* C37: whenever the summary says readyForProduction, every component of the report
\* is at 100%
C37_ReadyMeansAllComplete ==
  report # <<>> =>
    (report[1].summary.readyForProduction =>
       \A n \in DOMAIN report[1].componentStatus :
         report[1].componentStatus[n].completionPercentage = 100)

-----------------------------------------------------------------------------
(* What a command leaves alone *)

\* C38: a step that changes a component record changes one record only and no
\* milestone; a step that changes a milestone changes one milestone only, or adds
\* one after those there are, and changes no component record
C38_OneRecordPerCommand ==
  [][/\ components' # components =>
          /\ UNCHANGED <<milestones, milestonesFile>>
          /\ DOMAIN components' = DOMAIN components
          /\ \E c \in DOMAIN components :
               \A o \in DOMAIN components \ {c} : components'[o] = components[o]
     /\ milestones' # milestones =>
          /\ UNCHANGED <<components, componentsFile>>
          /\ Len(milestones') \in {Len(milestones), Len(milestones) + 1}
          /\ \E i \in 1..Len(milestones') :
               \A j \in 1..Len(milestones) \ {i} : milestones'[j] = milestones[j]]_vars

\* a component command and a milestone command have run: BingoBackend and Backend
\* API are changed, BingoFlash and Overlay Integration are as loaded
C38_Witness ==
  /\ components["BingoBackend"].lastUpdated > 0
  /\ components["BingoFlash"].lastUpdated = 0
  /\ getMilestone(milestones, "Backend API") # NewMilestone("Backend API", <<"BingoBackend">>, <<>>, 0)
  /\ getMilestone(milestones, "Overlay Integration")
       = NewMilestone("Overlay Integration", <<"BingoFlash">>, <<>>, 0)

-----------------------------------------------------------------------------
(* The draw server's numbers *)

\* C39: availableNumbers and drawnNumbers are disjoint, hold no number twice and
\* together hold exactly 1..LastNumber, and a step leaves drawnNumbers as it is or
\* appends one number to it
C39_NoNumberDrawnTwice ==
  /\ [](/\ Range(availableNumbers) \cap Range(drawnNumbers) = {}
        /\ Range(availableNumbers) \cup Range(drawnNumbers) = 1..LastNumber
        /\ Len(availableNumbers) + Len(drawnNumbers) = LastNumber)
  /\ [][/\ IsPrefix(drawnNumbers, drawnNumbers')
        /\ Len(drawnNumbers') <= Len(drawnNumbers) + 1]_vars

\* every number is drawn, the last one first, and two clients are connected
C39_Witness ==
  /\ Len(drawnNumbers) = LastNumber
  /\ drawnNumbers[1] = LastNumber
  /\ availableNumbers = <<>>
  /\ DOMAIN received = {"s1", "s2"}

-----------------------------------------------------------------------------
(* The draw server's messages *)

\* the numbers broadcast as newNumber so far
Broadcast(messages) ==
  {messages[i].payload : i \in {j \in 1..Len(messages) : messages[j].event = "newNumber"}}

\* C40: a step broadcasts at most one message; a connected client's draw always
\* broadcasts one; the message of a step that draws is newNumber with the number
\* drawn, which was not broadcast before, and fewer than LastNumber numbers were
\* drawn; a message with no number drawn is gameOver, after LastNumber numbers and
\* with both lists unchanged; a client that connects receives drawnNumbers
C40_OneBroadcastPerDraw ==
  /\ [](DOMAIN received # {} /\ Len(emitted) < LastNumber + MaxExtraDraws
          => ENABLED (NextDraw /\ emitted' # emitted))
  /\ [](/\ \A s \in DOMAIN received : IsPrefix(received[s], drawnNumbers)
        /\ Len(drawnNumbers) < LastNumber
             => \A i \in 1..Len(emitted) : emitted[i].event = "newNumber")
  /\ [][/\ IsPrefix(emitted, emitted') /\ Len(emitted') <= Len(emitted) + 1
        /\ drawnNumbers' # drawnNumbers =>
             /\ Len(drawnNumbers) < LastNumber
             /\ Len(emitted') = Len(emitted) + 1
             /\ emitted'[Len(emitted')].event = "newNumber"
             /\ emitted'[Len(emitted')].payload = drawnNumbers'[Len(drawnNumbers')]
             /\ emitted'[Len(emitted')].payload \notin Broadcast(emitted)
        /\ (emitted' # emitted /\ drawnNumbers' = drawnNumbers) =>
             /\ Len(drawnNumbers) = LastNumber
             /\ emitted'[Len(emitted')].event = "gameOver"
             /\ availableNumbers' = availableNumbers
        /\ \A s \in DOMAIN received' \ DOMAIN received :
             received'[s] = drawnNumbers /\ UNCHANGED drawnNumbers]_vars

\* a client connected after the first number and before the last, and the draw
\* after the last number was answered with gameOver
C40_Witness ==
  /\ Len(emitted) = LastNumber + 1
  /\ emitted[Len(emitted)].event = "gameOver"
  /\ \E s \in DOMAIN received :
       Len(received[s]) > 0 /\ Len(received[s]) < Len(drawnNumbers)

====
